---- MODULE Spec2Model ----
(***************************************************************************)
(* HexStickyNote: the streaming inference dispatch engine.                 *)
(*                                                                         *)
(* AiManager::invoke_stream reads the active provider and dispatches to    *)
(* one of three cloud adapters (stream_openai, stream_anthropic,           *)
(* stream_google), which read the HTTP response body chunk by chunk, or to *)
(* run_local_inference, which runs the decode loop of a local model.       *)
(* Every adapter emits "ai-stream-chunk" events; the OpenAI adapter also   *)
(* assembles one pending tool call, executes it through                    *)
(* ai_tools::execute_tool and emits "refresh-required".                    *)
(*                                                                         *)
(* Rust strings are TLA+ strings (Len, SubSeq and \o act on them), an      *)
(* Option<T> is a sequence of length 0 or 1.                               *)
(***************************************************************************)
EXTENDS Integers, Sequences, FiniteSets, TLC

VARIABLES
    active_provider,  \* AiManager.active_provider: Option<AiProvider>
    pc,               \* position of the invocation: idle, streaming, decoding, returned
    provider,         \* invoke_stream's local `provider` (read once at the start)
    result,           \* Option<Result>: what invoke_stream returned
    pending_tool,     \* stream_openai's `pending_tool`: Option<PendingToolCall>
    events,           \* everything handed to app.emit, in order
    tool_log,         \* every call of execute_tool, in order: its arguments,
                      \* its result, whether it changed the store, and the
                      \* number of events emitted before it
    store,            \* note storage: CARDS, the card files, the uuids drawn
    received,         \* the lines of the response body received so far
    session,          \* run_local_inference's loop variables
    ext_calls,        \* the operations outside the engine that the invocation
                      \* has called, in order: secret store, HTTP, model library
    chunk_bytes,      \* the bytes of a chunk handed to the line splitting alone
    payload_lists,    \* the payload lists got from chunk_bytes, one per pass
    sample_in,        \* the candidates and the tokens handed to the sampler alone
    sample_out,       \* what the sampler made of sample_in, one entry per pass
    invocations,      \* the locals of the invoke_stream calls that run side by
                      \* side, one record per call
    deliveries,       \* for every event handed to app.emit while calls run side
                      \* by side: the call that emitted it, and whether app.emit
                      \* returned Ok
    api_keys,         \* the providers that have an entry in the secret store
    provider_file,    \* active_provider.txt: Option<AiProvider>
    command,          \* the command that returned last: its arguments, what it
                      \* returned, and the state it started from
    model_fs,         \* the models directory: which file each path names, and
                      \* the chunks each file holds
    downloads,        \* the locals of the download_model calls, one record per call
    window_file,      \* window_state.json
    window_cmds       \* the locals of the window position commands, one record
                      \* per call

parser_vars == <<chunk_bytes, payload_lists>>

sampler_vars == <<sample_in, sample_out>>

concurrent_vars == <<invocations, deliveries>>

desktop_vars == <<api_keys, provider_file, command, model_fs, downloads,
                  window_file, window_cmds>>

vars == <<active_provider, pc, provider, result, pending_tool, events,
          tool_log, store, received, session, ext_calls, chunk_bytes,
          payload_lists, sample_in, sample_out, invocations, deliveries,
          api_keys, provider_file, command, model_fs, downloads, window_file,
          window_cmds>>

(***************************************************************************)
(* Bounds of the model.                                                    *)
(***************************************************************************)
\* Lines of one HTTP response body, over all of its chunks.
MaxLines == 4
\* Lines of one chunk of the body.
MaxChunkLines == 2

(***************************************************************************)
(* Option<T>.                                                              *)
(***************************************************************************)
Min(a, b) == IF a < b THEN a ELSE b

None == <<>>
Some(v) == <<v>>
is_some(o) == o # <<>>
unwrap(o) == o[1]

(***************************************************************************)
(* str: strip_prefix, contains, lines.                                     *)
(***************************************************************************)
starts_with(s, p) == Len(s) >= Len(p) /\ SubSeq(s, 1, Len(p)) = p

\* strip_prefix, were the space that ends the prefix not to be required.
strip_prefix_loose(s, p) ==
    IF starts_with(s, p) THEN <<SubSeq(s, Len(p) + 1, Len(s))>>
    ELSE IF Len(p) > 1 /\ starts_with(s, SubSeq(p, 1, Len(p) - 1))
    THEN <<SubSeq(s, Len(p), Len(s))>>
    ELSE <<>>

strip_prefix(s, p) ==
    IF starts_with(s, p) THEN Some(SubSeq(s, Len(p) + 1, Len(s))) ELSE None

contains(s, p) ==
    \E i \in 1..(Len(s) - Len(p) + 1) : SubSeq(s, i, i + Len(p) - 1) = p

\* A line ends at "\n" or "\r\n"; the line ending is not part of the line.
strip_cr(s) ==
    IF Len(s) > 0 /\ SubSeq(s, Len(s), Len(s)) = "\r"
    THEN SubSeq(s, 1, Len(s) - 1) ELSE s

\* str::lines: the final line needs no line ending, and a text that ends
\* with a line ending has no empty last line.
lines(s) ==
    LET feeds == {i \in 1..Len(s) : SubSeq(s, i, i) = "\n"}
        ends == IF Len(s) > 0 /\ Len(s) \notin feeds
                THEN feeds \cup {Len(s) + 1} ELSE feeds
        end(j) == CHOOSE e \in ends : Cardinality({x \in ends : x < e}) = j - 1
    IN  [j \in 1..Cardinality(ends) |->
            strip_cr(SubSeq(s, IF j = 1 THEN 1 ELSE end(j - 1) + 1, end(j) - 1))]

(***************************************************************************)
(* AiProvider.                                                             *)
(***************************************************************************)
OpenAI == "openai"
Anthropic == "anthropic"
Google == "google"
Poro2_8B == "poro2_8b"
FinChatSummary == "finchat_summary"

all == {OpenAI, Anthropic, Google, Poro2_8B, FinChatSummary}

as_str(p) ==
    CASE p = OpenAI -> "openai"
      [] p = Anthropic -> "anthropic"
      [] p = Google -> "google"
      [] p = Poro2_8B -> "poro2_8b"
      [] p = FinChatSummary -> "finchat_summary"

\* requires_api_key, were Poro2_8B to require a key.
requires_api_key_poro(p) == p # FinChatSummary

\* requires_api_key, were every provider to require a key.
requires_api_key_all(p) == p \in all

requires_api_key(p) == p \in {OpenAI, Anthropic, Google}

(***************************************************************************)
(* serde_json::Value, as far as the adapters look into it.  A document is  *)
(* the record of the paths the three adapters read; a path that is absent, *)
(* null or not a string reads as None (Value's Index and as_str).          *)
(***************************************************************************)
JNull ==
    [content |-> None, tool_calls |-> None, finish_reason |-> None,
     type |-> None, delta_text |-> None,
     cand_text |-> None, cand_finishReason |-> None]

\* One element of choices[0].delta.tool_calls.
Call(id, function) == [id |-> id, function |-> function]
Function(name, arguments) == [name |-> name, arguments |-> arguments]

\* The JSON documents of the model: the text on the wire and its value.
OpenAiDocs ==
    { [text |-> "{\"choices\":[{\"delta\":{\"content\":\"Hi\"}}]}",
       value |-> [JNull EXCEPT !.content = Some("Hi")]],
      [text |-> "{\"choices\":[{\"delta\":{\"tool_calls\":[{\"id\":\"c1\",\"function\":{\"name\":\"create_\"}}]}}]}",
       value |-> [JNull EXCEPT !.tool_calls =
                    Some(<<Call(Some("c1"), Some(Function(Some("create_"), None)))>>)]],
      [text |-> "{\"choices\":[{\"delta\":{\"tool_calls\":[{\"function\":{\"name\":\"note\",\"arguments\":\"{\\\"content\\\":\"}}]}}]}",
       value |-> [JNull EXCEPT !.tool_calls =
                    Some(<<Call(None, Some(Function(Some("note"), Some("{\"content\":"))))>>)]],
      [text |-> "{\"choices\":[{\"delta\":{\"tool_calls\":[{\"function\":{\"arguments\":\"\\\"hi\\\"}\"}}]}}]}",
       value |-> [JNull EXCEPT !.tool_calls =
                    Some(<<Call(None, Some(Function(None, Some("\"hi\"}"))))>>)]],
      [text |-> "{\"choices\":[{\"delta\":{\"tool_calls\":[{\"id\":\"c2\",\"function\":{\"name\":\"delete_note\",\"arguments\":\"{\\\"id\\\":\\\"n0\\\"}\"}}]}}]}",
       value |-> [JNull EXCEPT !.tool_calls =
                    Some(<<Call(Some("c2"),
                                Some(Function(Some("delete_note"), Some("{\"id\":\"n0\"}"))))>>)]],
      [text |-> "{\"choices\":[{\"delta\":{\"tool_calls\":[{\"id\":\"c3\",\"function\":{\"name\":\"list_notes\",\"arguments\":\"{\"}}]}}]}",
       value |-> [JNull EXCEPT !.tool_calls =
                    Some(<<Call(Some("c3"),
                                Some(Function(Some("list_notes"), Some("{"))))>>)]],
      [text |-> "{\"choices\":[{\"delta\":{},\"finish_reason\":\"tool_calls\"}]}",
       value |-> [JNull EXCEPT !.finish_reason = Some("tool_calls")]] }

AnthropicDocs ==
    { [text |-> "{\"type\":\"content_block_delta\",\"delta\":{\"text\":\"A\"}}",
       value |-> [JNull EXCEPT !.type = Some("content_block_delta"),
                               !.delta_text = Some("A")]],
      [text |-> "{\"type\":\"content_block_delta\",\"delta\":{\"text\":\"B\"}}",
       value |-> [JNull EXCEPT !.type = Some("content_block_delta"),
                               !.delta_text = Some("B")]],
      [text |-> "{\"type\":\"ping\"}",
       value |-> [JNull EXCEPT !.type = Some("ping")]],
      [text |-> "{\"type\":\"content_block_delta\",\"delta\":{\"partial_json\":\"{\"}}",
       value |-> [JNull EXCEPT !.type = Some("content_block_delta")]],
      [text |-> "{\"type\":\"message_stop\"}",
       value |-> [JNull EXCEPT !.type = Some("message_stop")]] }

GoogleDocs ==
    { [text |-> "{\"candidates\":[{\"content\":{\"parts\":[{\"text\":\"A\"}]}}]}",
       value |-> [JNull EXCEPT !.cand_text = Some("A")]],
      [text |-> "{\"candidates\":[{\"content\":{\"parts\":[{\"text\":\"B\"}]}}]}",
       value |-> [JNull EXCEPT !.cand_text = Some("B")]],
      [text |-> "{\"candidates\":[{\"content\":{\"parts\":[{\"text\":\"C\"}]},\"finishReason\":\"STOP\"}]}",
       value |-> [JNull EXCEPT !.cand_text = Some("C"),
                               !.cand_finishReason = Some("STOP")]],
      [text |-> "{\"candidates\":[{\"finishReason\":\"STOP\"}]}",
       value |-> [JNull EXCEPT !.cand_finishReason = Some("STOP")]],
      [text |-> "{\"candidates\":[{\"content\":{\"parts\":[{\"text\":\"D\"}]},\"finishReason\":null}]}",
       value |-> [JNull EXCEPT !.cand_text = Some("D")]] }

\* A second text delta of an OpenAI stream.
OpenAiTextDocs ==
    { [text |-> "{\"choices\":[{\"delta\":{\"content\":\" there\"}}]}",
       value |-> [JNull EXCEPT !.content = Some(" there")]] }

\* An OpenAI event that carries a text, the last arguments delta of a call
\* and the finish reason at once.
OpenAiFullDocs ==
    { [text |-> "{\"choices\":[{\"delta\":{\"content\":\"Hi\",\"tool_calls\":[{\"function\":{\"arguments\":\"\\\"hi\\\"}\"}}]},\"finish_reason\":\"tool_calls\"}]}",
       value |-> [JNull EXCEPT !.content = Some("Hi"),
                               !.tool_calls =
                    Some(<<Call(None, Some(Function(None, Some("\"hi\"}"))))>>),
                               !.finish_reason = Some("tool_calls")]] }

JsonDocs ==
    OpenAiDocs \cup OpenAiTextDocs \cup OpenAiFullDocs \cup AnthropicDocs
    \cup GoogleDocs

\* from_str, were it to accept the beginning of a JSON text of at least
\* twenty characters for the whole.
from_str_truncated(data) ==
    LET docs == {d \in JsonDocs :
                    \/ d.text = data
                    \/ (Len(data) >= 20 /\ Len(data) < Len(d.text)
                        /\ SubSeq(d.text, 1, Len(data)) = data)}
    IN  IF docs = {} THEN None ELSE Some((CHOOSE d \in docs : TRUE).value)

\* serde_json::from_str::<Value>: Some(value) for a JSON text, None (Err)
\* for every other text.
from_str(data) ==
    LET docs == {d \in JsonDocs : d.text = data} IN
    IF docs = {} THEN None ELSE Some((CHOOSE d \in docs : TRUE).value)

(***************************************************************************)
(* The argument texts of the tools: serde_json::from_str into              *)
(* CreateNoteArgs, UpdateNoteArgs, DeleteNoteArgs.  A text that is no JSON *)
(* object, or lacks a field of the struct, is an error; a field the struct *)
(* does not name is ignored.                                               *)
(***************************************************************************)
ArgDocs ==
    { [text |-> "{\"content\":\"hi\"}",
       value |-> [id |-> None, content |-> Some("hi")]],
      [text |-> "{\"id\":\"n0\"}",
       value |-> [id |-> Some("n0"), content |-> None]],
      [text |-> "{\"id\":\"n0\",\"content\":\"hi\"}",
       value |-> [id |-> Some("n0"), content |-> Some("hi")]],
      [text |-> "{}",
       value |-> [id |-> None, content |-> None]] }

args_from_str(arguments) ==
    LET docs == {d \in ArgDocs : d.text = arguments} IN
    IF docs = {} THEN None ELSE Some((CHOOSE d \in docs : TRUE).value)

(***************************************************************************)
(* card_manager: the in-memory list CARDS and the card files.  fs_ok says  *)
(* whether the file system accepts the writes of this call.                *)
(***************************************************************************)
Card(id, content) == [id |-> id, content |-> content]

\* Uuid::new_v4: the k-th identifier drawn.
uuid(k) == "n" \o ToString(k)

Ok(s) == [ok |-> TRUE, store |-> s]
Err(s) == [ok |-> FALSE, store |-> s]

has_card(s, id) == \E i \in 1..Len(s.CARDS) : s.CARDS[i].id = id
has_file(s, id) == \E f \in s.files : f.id = id

create_card(s, content, fs_ok) ==
    LET card == Card(uuid(s.uuids + 1), content)
        s1 == [s EXCEPT !.uuids = @ + 1, !.CARDS = Append(@, card)]
    IN  IF fs_ok THEN Ok([s1 EXCEPT !.files = @ \cup {card}]) ELSE Err(s1)

update_card(s, id, content, fs_ok) ==
    IF ~has_card(s, id) THEN Err(s)
    ELSE LET i == CHOOSE k \in 1..Len(s.CARDS) :
                    /\ s.CARDS[k].id = id
                    /\ \A j \in 1..(k - 1) : s.CARDS[j].id # id
             s1 == [s EXCEPT !.CARDS[i].content = content]
         IN  IF fs_ok
             THEN Ok([s1 EXCEPT !.files =
                        {f \in @ : f.id # id} \cup {Card(id, content)}])
             ELSE Err(s1)

delete_card(s, id, fs_ok) ==
    LET kept == SelectSeq(s.CARDS, LAMBDA c : c.id # id)
        s1 == [s EXCEPT !.CARDS = kept]
    IN  IF Len(kept) = Len(s.CARDS) THEN Err(s)
        ELSE IF ~has_file(s, id) THEN Err(s1)
        ELSE IF fs_ok THEN Ok([s1 EXCEPT !.files = {f \in @ : f.id # id}])
        ELSE Err(s1)

\* execute_tool, were create_note to fall back on an empty note when its
\* arguments do not parse.
execute_tool_default_args(name, arguments, s, fs_ok) ==
    LET args == args_from_str(arguments) IN
    CASE name = "create_note" ->
            IF is_some(args) /\ is_some(unwrap(args).content)
            THEN create_card(s, unwrap(unwrap(args).content), fs_ok)
            ELSE create_card(s, "", fs_ok)
      [] name = "update_note" ->
            IF /\ is_some(args)
               /\ is_some(unwrap(args).id)
               /\ is_some(unwrap(args).content)
            THEN update_card(s, unwrap(unwrap(args).id),
                             unwrap(unwrap(args).content), fs_ok)
            ELSE Err(s)
      [] name = "delete_note" ->
            IF is_some(args) /\ is_some(unwrap(args).id)
            THEN delete_card(s, unwrap(unwrap(args).id), fs_ok)
            ELSE Err(s)
      [] name = "list_notes" -> Ok(s)
      [] OTHER -> Err(s)

(***************************************************************************)
(* ai_tools::execute_tool.                                                 *)
(***************************************************************************)
execute_tool(name, arguments, s, fs_ok) ==
    LET args == args_from_str(arguments) IN
    CASE name = "create_note" ->
            IF is_some(args) /\ is_some(unwrap(args).content)
            THEN create_card(s, unwrap(unwrap(args).content), fs_ok)
            ELSE Err(s)
      [] name = "update_note" ->
            IF /\ is_some(args)
               /\ is_some(unwrap(args).id)
               /\ is_some(unwrap(args).content)
            THEN update_card(s, unwrap(unwrap(args).id),
                             unwrap(unwrap(args).content), fs_ok)
            ELSE Err(s)
      [] name = "delete_note" ->
            IF is_some(args) /\ is_some(unwrap(args).id)
            THEN delete_card(s, unwrap(unwrap(args).id), fs_ok)
            ELSE Err(s)
      [] name = "list_notes" -> Ok(s)
      [] OTHER -> Err(s)

(***************************************************************************)
(* The output sink: app.emit.  The state of an adapter while it works      *)
(* through the lines of a chunk: st.returned says that the adapter has     *)
(* executed `return Ok(())`.                                               *)
(***************************************************************************)
AiStreamChunk(chunk, done) ==
    [event |-> "ai-stream-chunk", chunk |-> chunk, done |-> done]
RefreshRequired == [event |-> "refresh-required", chunk |-> "", done |-> FALSE]

\* emit, were the sink to receive the newest event first.
emit_first(st, e) == [st EXCEPT !.events = <<e>> \o @]

emit(st, e) == [st EXCEPT !.events = Append(@, e)]

\* emit("ai-stream-chunk", {chunk: "", done: true}).
emit_done(st) == emit(st, AiStreamChunk("", TRUE))

\* return_ok, were the adapter to go on with the next line.
return_ok_continue(st) == st

return_ok(st) == [st EXCEPT !.returned = TRUE]

(***************************************************************************)
(* stream_openai: the pending tool call.                                   *)
(***************************************************************************)
PendingToolCall(id, name, arguments) ==
    [id |-> id, name |-> name, arguments |-> arguments]

\* run_pending_tool, were it to read the pending call without taking it.
run_pending_tool_keep(st, fs_ok) ==
    IF is_some(st.pending_tool)
    THEN LET tool == unwrap(st.pending_tool)
             r == execute_tool(tool.name, tool.arguments, st.store, fs_ok)
         IN  emit([st EXCEPT !.store = r.store,
                             !.tool_log = Append(@, [id |-> tool.id,
                                                     name |-> tool.name,
                                                     arguments |-> tool.arguments,
                                                     ok |-> r.ok,
                                                     wrote |-> r.store # st.store,
                                                     at |-> Len(st.events)])],
                  RefreshRequired)
    ELSE st

\* `if let Some(tool) = pending_tool.take() { execute_tool; emit refresh }`
run_pending_tool(st, fs_ok) ==
    IF is_some(st.pending_tool)
    THEN LET tool == unwrap(st.pending_tool)
             r == execute_tool(tool.name, tool.arguments, st.store, fs_ok)
         IN  emit([st EXCEPT !.pending_tool = None,
                             !.store = r.store,
                             !.tool_log = Append(@, [id |-> tool.id,
                                                     name |-> tool.name,
                                                     arguments |-> tool.arguments,
                                                     ok |-> r.ok,
                                                     wrote |-> r.store # st.store,
                                                     at |-> Len(st.events)])],
                  RefreshRequired)
    ELSE st

\* begin_call, were the buffers of a replaced call to be kept.
begin_call_keep(pending, id) ==
    IF is_some(pending)
    THEN Some(PendingToolCall(id, unwrap(pending).name, unwrap(pending).arguments))
    ELSE Some(PendingToolCall(id, "", ""))

\* A fragment with an id starts a new pending call.
begin_call(pending, id) == Some(PendingToolCall(id, "", ""))

\* push_function, were a delta to overwrite the buffer.
push_function_replace(pt, function) ==
    PendingToolCall(
        pt.id,
        IF is_some(function.name) THEN unwrap(function.name) ELSE pt.name,
        IF is_some(function.arguments) THEN unwrap(function.arguments)
        ELSE pt.arguments)

\* The name and arguments deltas are pushed onto the pending call.
push_function(pt, function) ==
    PendingToolCall(
        pt.id,
        IF is_some(function.name) THEN pt.name \o unwrap(function.name) ELSE pt.name,
        IF is_some(function.arguments)
        THEN pt.arguments \o unwrap(function.arguments) ELSE pt.arguments)

\* apply_tool_call, were a function delta that finds no call pending to
\* begin a call without an id.
apply_tool_call_adopt(pending, call) ==
    LET p1 == IF is_some(call.id) THEN begin_call(pending, unwrap(call.id))
              ELSE IF is_some(call.function) /\ ~is_some(pending)
              THEN begin_call(pending, "")
              ELSE pending
    IN  IF is_some(call.function) /\ is_some(p1)
        THEN Some(push_function(unwrap(p1), unwrap(call.function)))
        ELSE p1

\* The body of `for call in tool_calls`.
apply_tool_call(pending, call) ==
    LET p1 == IF is_some(call.id) THEN begin_call(pending, unwrap(call.id))
              ELSE pending
    IN  IF is_some(call.function) /\ is_some(p1)
        THEN Some(push_function(unwrap(p1), unwrap(call.function)))
        ELSE p1

RECURSIVE apply_tool_calls(_, _)
apply_tool_calls(pending, calls) ==
    IF calls = <<>> THEN pending
    ELSE apply_tool_calls(apply_tool_call(pending, Head(calls)), Tail(calls))

\* openai_done, were the done chunk to be emitted before the pending call is
\* looked at.
openai_done_first(st, fs_ok) == return_ok(run_pending_tool(emit_done(st), fs_ok))

\* data == "[DONE]"
openai_done(st, fs_ok) == return_ok(emit_done(run_pending_tool(st, fs_ok)))

\* 1. the text content
openai_content(st, json) ==
    IF is_some(json.content)
    THEN emit(st, AiStreamChunk(unwrap(json.content), FALSE))
    ELSE st

\* 2. the tool calls
openai_tool_calls(st, json) ==
    IF is_some(json.tool_calls)
    THEN [st EXCEPT !.pending_tool = apply_tool_calls(@, unwrap(json.tool_calls))]
    ELSE st

\* 3. finish_reason
openai_finish_reason(st, json, fs_ok) ==
    IF json.finish_reason = Some("tool_calls")
    THEN run_pending_tool(st, fs_ok)
    ELSE st

\* openai_json, were finish_reason to be looked at first and the text
\* content last.
openai_json_finish_first(st, json, fs_ok) ==
    openai_content(openai_tool_calls(openai_finish_reason(st, json, fs_ok), json),
                   json)

openai_json(st, json, fs_ok) ==
    openai_finish_reason(openai_tool_calls(openai_content(st, json), json),
                         json, fs_ok)

\* skip_payload, were a rejected payload to be reported as an empty fragment.
skip_payload_report(st) == emit(st, AiStreamChunk("", FALSE))

\* What the adapters do with a payload that serde_json rejects.
skip_payload(st) == st

\* The body of `for line in text.lines()` of stream_openai.
openai_line(st, line, fs_ok) ==
    LET data == strip_prefix(line, "data: ") IN
    IF ~is_some(data) THEN st
    ELSE IF unwrap(data) = "[DONE]" THEN openai_done(st, fs_ok)
    ELSE LET json == from_str(unwrap(data)) IN
         IF is_some(json) THEN openai_json(st, unwrap(json), fs_ok)
         ELSE skip_payload(st)

(***************************************************************************)
(* stream_anthropic.                                                       *)
(***************************************************************************)
\* anthropic_json, were an event of another type, or without a text, to be
\* reported as an empty fragment.
anthropic_json_report(st, json) ==
    LET event_type == IF is_some(json.type) THEN unwrap(json.type) ELSE "" IN
    CASE event_type = "content_block_delta" ->
            IF is_some(json.delta_text)
            THEN emit(st, AiStreamChunk(unwrap(json.delta_text), FALSE))
            ELSE emit(st, AiStreamChunk("", FALSE))
      [] event_type = "message_stop" -> return_ok(emit_done(st))
      [] OTHER -> emit(st, AiStreamChunk("", FALSE))

anthropic_json(st, json) ==
    LET event_type == IF is_some(json.type) THEN unwrap(json.type) ELSE "" IN
    CASE event_type = "content_block_delta" ->
            IF is_some(json.delta_text)
            THEN emit(st, AiStreamChunk(unwrap(json.delta_text), FALSE))
            ELSE st
      [] event_type = "message_stop" -> return_ok(emit_done(st))
      [] OTHER -> st

anthropic_line(st, line) ==
    LET data == strip_prefix(line, "data: ") IN
    IF ~is_some(data) THEN st
    ELSE LET json == from_str(unwrap(data)) IN
         IF is_some(json) THEN anthropic_json(st, unwrap(json))
         ELSE skip_payload(st)

(***************************************************************************)
(* stream_google.                                                          *)
(***************************************************************************)
\* google_json, were the text of the event that carries the finishReason to
\* be dropped.
google_json_drop(st, json) ==
    IF is_some(json.cand_finishReason) THEN return_ok(emit_done(st))
    ELSE IF is_some(json.cand_text)
    THEN emit(st, AiStreamChunk(unwrap(json.cand_text), FALSE))
    ELSE st

google_json(st, json) ==
    LET st1 == IF is_some(json.cand_text)
               THEN emit(st, AiStreamChunk(unwrap(json.cand_text), FALSE))
               ELSE st
    IN  IF is_some(json.cand_finishReason) THEN return_ok(emit_done(st1))
        ELSE st1

google_line(st, line) ==
    LET data == strip_prefix(line, "data: ") IN
    IF ~is_some(data) THEN st
    ELSE LET json == from_str(unwrap(data)) IN
         IF is_some(json) THEN google_json(st, unwrap(json))
         ELSE skip_payload(st)

(***************************************************************************)
(* The three loops `for line in text.lines()`: the lines of one chunk, in  *)
(* order, until the adapter returns.                                       *)
(***************************************************************************)
adapter_line(p, st, line, fs_ok) ==
    CASE p = OpenAI -> openai_line(st, line, fs_ok)
      [] p = Anthropic -> anthropic_line(st, line)
      [] p = Google -> google_line(st, line)

RECURSIVE for_lines(_, _, _, _)
for_lines(p, st, ls, fs_ok) ==
    IF ls = <<>> \/ st.returned THEN st
    ELSE for_lines(p, adapter_line(p, st, Head(ls), fs_ok), Tail(ls), fs_ok)

\* One iteration of `while let Some(chunk_result) = stream.next().await`
\* with chunk_result = Ok(chunk).
on_chunk(p, st, chunk, fs_ok) == for_lines(p, st, lines(chunk), fs_ok)

(***************************************************************************)
(* run_local_inference: the vocabulary of the model.  A token id is an     *)
(* index of Vocab; text = None is a token that token_to_str cannot decode. *)
(***************************************************************************)
Vocab ==
    << [text |-> Some(""), eog |-> TRUE],
       [text |-> Some("Hi"), eog |-> FALSE],
       [text |-> Some("Kysy"), eog |-> FALSE],
       [text |-> Some("mys:"), eog |-> FALSE],
       [text |-> Some("<unk>"), eog |-> FALSE],
       [text |-> None, eog |-> FALSE],
       [text |-> Some(""), eog |-> FALSE] >>

TokenIds == 1..Len(Vocab)

\* is_eog_token, were no token to be an end-of-generation token.
is_eog_token_never(token) == FALSE

is_eog_token(token) == Vocab[token].eog
token_to_str(token) == Vocab[token].text

\* The engine's constants, scaled down: MAX_TOKENS is 512, the batch holds
\* 512 tokens and last_n is 64 in the source.
MAX_TOKENS == 4
N_BATCH == 4
last_n == 2

\* penalty = 1.2 = PenaltyNum / PenaltyDen.
PenaltyNum == 6
PenaltyDen == 5

stop_sequences ==
    << "Kysymys:", "Käyttäjä:", "Expected Output:", "User Request:",
       "Instruction:", "Vastaus:", "<|eot_id|>", "<|end_of_text|>", "\n\n\n" >>

(***************************************************************************)
(* The sampler.  A logit is kept as an integer number of 1/30 units, so    *)
(* that the product and the quotient by 1.2 are exact: the model's raw     *)
(* logits are multiples of 30 units.                                       *)
(***************************************************************************)
TokenData(id, logit) == [id |-> id, logit |-> logit]

\* all_tokens[all_tokens.len().saturating_sub(last_n)..]
recent_tokens(all_tokens) ==
    LET n == Len(all_tokens)
        from == IF n > last_n THEN n - last_n ELSE 0
    IN  SubSeq(all_tokens, from + 1, n)

seq_contains(seq, x) == \E i \in 1..Len(seq) : seq[i] = x

\* penalised, were the two branches exchanged: the product for a positive
\* logit, the quotient for the others.
penalised_swapped(logit) ==
    IF logit <= 0 THEN (logit * PenaltyDen) \div PenaltyNum
    ELSE (logit * PenaltyNum) \div PenaltyDen

\* if cand.logit() <= 0.0 { logit * penalty } else { logit / penalty }
penalised(logit) ==
    IF logit <= 0 THEN (logit * PenaltyNum) \div PenaltyDen
    ELSE (logit * PenaltyDen) \div PenaltyNum

\* apply_penalty, were no candidate to be penalised.
apply_penalty_none(data, recent) == data

apply_penalty(data, recent) ==
    [i \in 1..Len(data) |->
        IF seq_contains(recent, data[i].id)
        THEN TokenData(data[i].id, penalised(data[i].logit))
        ELSE data[i]]

\* insert_by_logit, were the sort to put equal logits in reverse order.
RECURSIVE insert_by_logit_last(_, _)
insert_by_logit_last(sorted, x) ==
    IF sorted = <<>> THEN <<x>>
    ELSE IF Head(sorted).logit > x.logit
         THEN <<Head(sorted)>> \o insert_by_logit_last(Tail(sorted), x)
         ELSE <<x>> \o sorted

\* sort_by(|a, b| b.logit().partial_cmp(&a.logit())): a stable sort, the
\* logits descending.
RECURSIVE insert_by_logit(_, _)
insert_by_logit(sorted, x) ==
    IF sorted = <<>> THEN <<x>>
    ELSE IF Head(sorted).logit >= x.logit
         THEN <<Head(sorted)>> \o insert_by_logit(Tail(sorted), x)
         ELSE <<x>> \o sorted

RECURSIVE sort_by_logit(_)
sort_by_logit(data) ==
    IF data = <<>> THEN <<>>
    ELSE insert_by_logit(sort_by_logit(SubSeq(data, 1, Len(data) - 1)),
                         data[Len(data)])

\* candidates_array.data.first() after the penalty and the sort.
sample(candidates, all_tokens) ==
    LET data == sort_by_logit(apply_penalty(candidates, recent_tokens(all_tokens)))
    IN  IF data = <<>> THEN None ELSE Some(Head(data).id)

should_stop(full_response) ==
    \E k \in 1..Len(stop_sequences) : contains(full_response, stop_sequences[k])

Session(all_tokens, n_cur, generated_tokens, emitted_chunks, full_response) ==
    [all_tokens |-> all_tokens, n_cur |-> n_cur,
     generated_tokens |-> generated_tokens, emitted_chunks |-> emitted_chunks,
     full_response |-> full_response]

NoSession == Session(<<>>, 0, 0, 0, "")

\* on_text, were the placeholder text to be emitted as every other text.
on_text_emit_placeholder(st, text) ==
    LET full == st.session.full_response \o text
        st1 == [st EXCEPT !.session.full_response = full]
    IN  IF should_stop(full) THEN [st1 EXCEPT !.outcome = "break"]
        ELSE IF text = "" THEN st1
        ELSE [st1 EXCEPT !.events = Append(@, AiStreamChunk(text, FALSE)),
                         !.session.emitted_chunks = @ + 1]

\* on_text, were the text to be emitted before the stop markers are looked
\* for.
on_text_emit_first(st, text) ==
    LET full == st.session.full_response \o text
        st1 == [st EXCEPT !.session.full_response = full]
        st2 == IF text = "" \/ text = "<unk>" \/ text = " <unk>" THEN st1
               ELSE [st1 EXCEPT !.events = Append(@, AiStreamChunk(text, FALSE)),
                                !.session.emitted_chunks = @ + 1]
    IN  IF should_stop(full) THEN [st2 EXCEPT !.outcome = "break"] ELSE st2

\* The part of the loop body after the token is decoded to `text`.
\* st = [session, events, outcome]; outcome break leaves the loop.
on_text(st, text) ==
    LET full == st.session.full_response \o text
        st1 == [st EXCEPT !.session.full_response = full]
    IN  IF should_stop(full) THEN [st1 EXCEPT !.outcome = "break"]
        ELSE IF text = "" THEN st1
        ELSE IF text = "<unk>" \/ text = " <unk>" THEN st1
        ELSE [st1 EXCEPT !.events = Append(@, AiStreamChunk(text, FALSE)),
                         !.session.emitted_chunks = @ + 1]

\* decode_iteration, were the token to take the place of the last token of
\* the sequence once the prompt is followed by a generated token.
decode_iteration_rewrite(sess, evs, candidates, decode_ok) ==
    LET st0 == [session |-> sess, events |-> evs, outcome |-> "continue"]
        token == sample(candidates, sess.all_tokens)
    IN  IF ~is_some(token) THEN [st0 EXCEPT !.outcome = "break"]
        ELSE LET t == unwrap(token)
                 st1 == [st0 EXCEPT !.session.generated_tokens = @ + 1,
                                    !.session.all_tokens =
                                        IF sess.generated_tokens = 0 THEN Append(@, t)
                                        ELSE [@ EXCEPT ![Len(@)] = t]]
             IN  IF is_eog_token(t) THEN [st1 EXCEPT !.outcome = "break"]
                 ELSE LET text_res == token_to_str(t)
                          st2 == IF is_some(text_res)
                                 THEN on_text(st1, unwrap(text_res))
                                 ELSE st1
                      IN  IF st2.outcome = "break" THEN st2
                          ELSE IF ~decode_ok THEN [st2 EXCEPT !.outcome = "error"]
                          ELSE [st2 EXCEPT !.session.n_cur = @ + 1]

\* One iteration of `while n_cur < MAX_TOKENS`.  decode_ok: batch.add and
\* ctx.decode of the new token succeed.
decode_iteration(sess, evs, candidates, decode_ok) ==
    LET st0 == [session |-> sess, events |-> evs, outcome |-> "continue"]
        token == sample(candidates, sess.all_tokens)
    IN  IF ~is_some(token) THEN [st0 EXCEPT !.outcome = "break"]
        ELSE LET t == unwrap(token)
                 st1 == [st0 EXCEPT !.session.generated_tokens = @ + 1,
                                    !.session.all_tokens = Append(@, t)]
             IN  IF is_eog_token(t) THEN [st1 EXCEPT !.outcome = "break"]
                 ELSE LET text_res == token_to_str(t)
                          st2 == IF is_some(text_res)
                                 THEN on_text(st1, unwrap(text_res))
                                 ELSE st1
                      IN  IF st2.outcome = "break" THEN st2
                          ELSE IF ~decode_ok THEN [st2 EXCEPT !.outcome = "error"]
                          ELSE [st2 EXCEPT !.session.n_cur = @ + 1]

(***************************************************************************)
(* run_local_inference before the loop.  env is what the invocation finds: *)
(* the providers with an entry in the settings' local_models, whether the  *)
(* weights file exists, the first library call that fails, the tokens of   *)
(* the formatted prompt.                                                   *)
(***************************************************************************)
LocalProviders == {p \in all : ~requires_api_key(p)}

\* local_model::get_model_info succeeds.
get_model_info_ok(p, local_models) == p \in local_models \/ p = Poro2_8B

local_setup(p, env) ==
    IF ~get_model_info_ok(p, env.local_models) THEN "LocalModelError"
    ELSE IF ~env.downloaded THEN "ModelNotDownloaded"
    ELSE IF env.fault = "backend" THEN "BackendNotInitialized"
    ELSE IF env.fault = "load" THEN "ModelLoadError"
    ELSE IF env.fault = "context" THEN "ContextError"
    ELSE IF env.fault = "tokenize" THEN "TokenizationError"
    ELSE IF Len(env.tokens) > N_BATCH THEN "InferenceError"
    ELSE IF env.fault = "decode" THEN "InferenceError"
    ELSE "Ok"

\* The operations run_local_inference has called when local_setup ends.
local_calls(p, env) ==
    LET r == local_setup(p, env)
        upto(n) == SubSeq(<<"is_model_downloaded", "get_model_path", "get_backend",
                            "load_from_file", "new_context", "str_to_token",
                            "decode">>, 1, n)
    IN  CASE r \in {"LocalModelError", "ModelNotDownloaded"} -> upto(1)
          [] r = "BackendNotInitialized" -> upto(3)
          [] r = "ModelLoadError" -> upto(4)
          [] r = "ContextError" -> upto(5)
          [] r = "TokenizationError" -> upto(6)
          [] r = "InferenceError" /\ Len(env.tokens) > N_BATCH -> upto(6)
          [] OTHER -> upto(7)

(***************************************************************************)
(* What the environment can send: the lines of a response body, the        *)
(* chunks made of them, the prompts and the logits of the local model.     *)
(***************************************************************************)
DataLine(doc) == "data: " \o doc.text
DoneLine == "data: [DONE]"
MalformedLine == "data: {\"choices\":[{\"del"
BlankLine == ""
EventLine == "event: message_stop"

Lines(p) ==
    CASE p = OpenAI ->
            {DataLine(d) : d \in OpenAiDocs} \cup {DoneLine, MalformedLine}
      [] p = Anthropic ->
            {DataLine(d) : d \in AnthropicDocs} \cup {DoneLine, MalformedLine, EventLine}
      [] p = Google ->
            {DataLine(d) : d \in GoogleDocs} \cup {DoneLine, MalformedLine, BlankLine}

RECURSIVE join_lines(_)
join_lines(ls) ==
    IF ls = <<>> THEN "" ELSE Head(ls) \o "\n" \o join_lines(Tail(ls))

\* The chunks of at most n lines, every line ended by a line feed.
Chunks(p, n) ==
    UNION { {join_lines(ls) : ls \in [1..k -> Lines(p)]} : k \in 1..n }

\* The token ids of a formatted prompt: the BOS token, then k text tokens.
Prompts ==
    { [i \in 1..(k + 1) |-> IF i = 1 THEN Len(Vocab) ELSE 2] : k \in 0..N_BATCH }

\* ctx.candidates(): one candidate per token id, in the order of the ids.
Logits ==
    { [i \in TokenIds |->
          TokenData(i, IF i = a THEN 180 ELSE IF i = b THEN 150 ELSE -30)] :
        a \in TokenIds, b \in TokenIds }
    \cup
    { [i \in TokenIds |->
          TokenData(i, IF i = a THEN 0 ELSE IF i = b THEN -30 ELSE -60)] :
        a \in TokenIds, b \in TokenIds }
    \cup {<<>>}

LocalEnvs ==
    [local_models : {{Poro2_8B}, LocalProviders},
     downloaded : BOOLEAN,
     fault : {"none", "backend", "load", "context", "tokenize", "decode"},
     tokens : Prompts]

(***************************************************************************)
(* The calls of invoke_stream that run side by side: InvIds names them.    *)
(* Each has its own locals; active_provider, the events handed to          *)
(* app.emit and the note storage are common to them.                       *)
(***************************************************************************)
InvIds == {1, 2}

Invocation(at, p, r, pending, recv, sess) ==
    [pc |-> at, provider |-> p, result |-> r, pending_tool |-> pending,
     received |-> recv, session |-> sess]

NoInvocations == [i \in InvIds |-> Invocation("idle", None, None, None, <<>>, NoSession)]

(***************************************************************************)
(* The rest of the application, at rest: no key stored, no provider saved, *)
(* no command returned yet, an empty models directory, no download         *)
(* running, no window state file, no window command running.               *)
(***************************************************************************)
\* The download_model calls that may run side by side.
DownloadIds == {1, 2}

\* The window position commands that may run side by side.
MoveIds == {1, 2}

NoCommand == [name |-> "none"]

\* A path names file 0 when nothing exists at it; `files` holds, for every
\* file ever created, the set of the chunks written into it.
NoModelFs == [model |-> 0, tmp |-> 0, files |-> <<>>]

NoDownload == [at |-> "idle", file |-> 0, downloaded |-> 0]

\* WindowState::default().
WindowState_default == [main_window |-> None, orb_window |-> None]

NoMove ==
    [at |-> "idle", kind |-> "", pos |-> [x |-> 0, y |-> 0],
     loaded |-> FALSE, state |-> WindowState_default]

InitDesktop ==
    /\ api_keys = {}
    /\ provider_file = None
    /\ command = NoCommand
    /\ model_fs = NoModelFs
    /\ downloads = [d \in DownloadIds |-> NoDownload]
    /\ window_file = None
    /\ window_cmds = [c \in MoveIds |-> NoMove]

(***************************************************************************)
(* The state after construction: AiManager::new loads the saved provider;  *)
(* no invocation is running; the note storage holds one card.              *)
(***************************************************************************)
InitStore ==
    [CARDS |-> <<Card("n0", "old")>>, files |-> {Card("n0", "old")}, uuids |-> 0]

Init ==
    /\ active_provider \in {None} \cup {Some(p) : p \in all}
    /\ pc = "idle"
    /\ provider = None
    /\ result = None
    /\ pending_tool = None
    /\ events = <<>>
    /\ tool_log = <<>>
    /\ store = InitStore
    /\ received = <<>>
    /\ session = NoSession
    /\ ext_calls = <<>>
    /\ chunk_bytes = ""
    /\ payload_lists = <<>>
    /\ sample_in = [candidates |-> <<>>, all_tokens |-> <<>>]
    /\ sample_out = <<>>
    /\ invocations = NoInvocations
    /\ deliveries = <<>>
    /\ InitDesktop

\* invoke_stream returns r.
Return(r) == pc' = "returned" /\ result' = Some(r)

(***************************************************************************)
(* AiManager::invoke_stream up to the first await of the response body     *)
(* (cloud) or up to the head of the decode loop (local).                   *)
(***************************************************************************)
Invoke ==
    /\ pc = "idle"
    /\ UNCHANGED <<active_provider, pending_tool, events, tool_log, store, received>>
    /\ UNCHANGED parser_vars
    /\ UNCHANGED sampler_vars
    /\ UNCHANGED desktop_vars
    /\ UNCHANGED concurrent_vars
    /\ \/ /\ active_provider = None
          /\ Return("NoApiKey")
          /\ UNCHANGED <<provider, session, ext_calls>>
       \/ /\ is_some(active_provider)
          /\ ~requires_api_key(unwrap(active_provider))
          /\ provider' = active_provider
          /\ \E env \in LocalEnvs :
                LET r == local_setup(unwrap(active_provider), env) IN
                /\ ext_calls' = ext_calls \o local_calls(unwrap(active_provider), env)
                /\ IF r = "Ok"
                   THEN /\ pc' = "decoding"
                        /\ result' = result
                        /\ session' = Session(env.tokens, Len(env.tokens), 0, 0, "")
                   ELSE Return(r) /\ session' = session
       \/ /\ is_some(active_provider)
          /\ requires_api_key(unwrap(active_provider))
          /\ provider' = active_provider
          /\ UNCHANGED session
          /\ \E api_key \in BOOLEAN, http \in {"success", "send_error", "status_error"} :
                /\ ext_calls' = ext_calls \o
                      (IF api_key /\ unwrap(active_provider) \in {OpenAI, Anthropic, Google}
                       THEN <<"get_api_key", "send">> ELSE <<"get_api_key">>)
                /\ IF ~api_key THEN Return("NoApiKey")
                   ELSE IF unwrap(active_provider) \notin {OpenAI, Anthropic, Google}
                   THEN Return("UnsupportedProvider")
                   ELSE IF http = "send_error" THEN Return("HttpError")
                   ELSE IF http = "status_error" THEN Return("ApiError")
                   ELSE pc' = "streaming" /\ result' = result

(***************************************************************************)
(* The cloud adapters' loop over the response body.                        *)
(***************************************************************************)
AdapterState ==
    [pending_tool |-> pending_tool, events |-> events, tool_log |-> tool_log,
     store |-> store, returned |-> FALSE]

\* stream.next() yields Ok(chunk).  The file system accepts the writes of
\* the tools (a card whose file is missing still fails to be deleted).
RecvChunk ==
    /\ pc = "streaming"
    /\ \E chunk \in Chunks(unwrap(provider),
                            Min(MaxChunkLines, MaxLines - Len(received))),
          fs_ok \in {TRUE} :
          LET st == on_chunk(unwrap(provider), AdapterState, chunk, fs_ok) IN
          /\ pending_tool' = st.pending_tool
          /\ events' = st.events
          /\ tool_log' = st.tool_log
          /\ store' = st.store
          /\ received' = received \o lines(chunk)
          /\ IF st.returned THEN Return("Ok")
             ELSE pc' = pc /\ result' = result
    /\ UNCHANGED <<active_provider, provider, session, ext_calls>>
    /\ UNCHANGED parser_vars
    /\ UNCHANGED sampler_vars
    /\ UNCHANGED desktop_vars
    /\ UNCHANGED concurrent_vars

\* stream.next() yields None: the provider closed the connection.
StreamClosed ==
    /\ pc = "streaming"
    /\ Return("Ok")
    /\ UNCHANGED <<active_provider, provider, pending_tool, events, tool_log,
                   store, received, session, ext_calls>>
    /\ UNCHANGED parser_vars
    /\ UNCHANGED sampler_vars
    /\ UNCHANGED desktop_vars
    /\ UNCHANGED concurrent_vars

\* StreamError, were the done chunk to be emitted before the error is returned.
StreamErrorDone ==
    /\ pc = "streaming"
    /\ events' = Append(events, AiStreamChunk("", TRUE))
    /\ Return("HttpError")
    /\ UNCHANGED <<active_provider, provider, pending_tool, tool_log,
                   store, received, session, ext_calls>>
    /\ UNCHANGED parser_vars
    /\ UNCHANGED sampler_vars
    /\ UNCHANGED desktop_vars
    /\ UNCHANGED concurrent_vars

\* stream.next() yields Err: `let chunk = chunk_result?`.
StreamError ==
    /\ pc = "streaming"
    /\ Return("HttpError")
    /\ UNCHANGED <<active_provider, provider, pending_tool, events, tool_log,
                   store, received, session, ext_calls>>
    /\ UNCHANGED parser_vars
    /\ UNCHANGED sampler_vars
    /\ UNCHANGED desktop_vars
    /\ UNCHANGED concurrent_vars

(***************************************************************************)
(* The decode loop of run_local_inference.                                 *)
(***************************************************************************)
\* One iteration; a break also emits the done chunk and returns.
DecodeStep ==
    /\ pc = "decoding"
    /\ session.n_cur < MAX_TOKENS
    /\ \E candidates \in Logits, decode_ok \in BOOLEAN :
          LET st == decode_iteration(session, events, candidates, decode_ok) IN
          /\ session' = st.session
          /\ CASE st.outcome = "continue" ->
                    events' = st.events /\ pc' = pc /\ result' = result
               [] st.outcome = "break" ->
                    events' = Append(st.events, AiStreamChunk("", TRUE)) /\ Return("Ok")
               [] st.outcome = "error" ->
                    events' = st.events /\ Return("InferenceError")
    /\ UNCHANGED <<active_provider, provider, pending_tool, tool_log, store, received,
                   ext_calls>>
    /\ UNCHANGED parser_vars
    /\ UNCHANGED sampler_vars
    /\ UNCHANGED desktop_vars
    /\ UNCHANGED concurrent_vars

\* The loop condition fails: the done chunk, then Ok(()).
DecodeExit ==
    /\ pc = "decoding"
    /\ ~(session.n_cur < MAX_TOKENS)
    /\ events' = Append(events, AiStreamChunk("", TRUE))
    /\ Return("Ok")
    /\ UNCHANGED <<active_provider, provider, pending_tool, tool_log, store,
                   received, session, ext_calls>>
    /\ UNCHANGED parser_vars
    /\ UNCHANGED sampler_vars
    /\ UNCHANGED desktop_vars
    /\ UNCHANGED concurrent_vars

Next ==
    \/ Invoke
    \/ RecvChunk
    \/ StreamClosed
    \/ StreamError
    \/ DecodeStep
    \/ DecodeExit

Spec == Init /\ [][Next]_vars

(***************************************************************************)
(* Observations used by the properties.                                    *)
(***************************************************************************)
IsFragment(e) == e.event = "ai-stream-chunk" /\ ~e.done
IsDone(e) == e.event = "ai-stream-chunk" /\ e.done
IsRefresh(e) == e.event = "refresh-required"

\* The texts of the fragments of a sequence of events, in order.
Fragments(evs) ==
    LET fs == SelectSeq(evs, IsFragment) IN [i \in 1..Len(fs) |-> fs[i].chunk]

DoneCount(evs) == Len(SelectSeq(evs, IsDone))

IsPrefix(a, b) == Len(a) <= Len(b) /\ SubSeq(b, 1, Len(a)) = a

Max(S) == CHOOSE x \in S : \A y \in S : y <= x

\* The elements of a finite set of integers, ascending.
Ascending(S) ==
    [k \in 1..Cardinality(S) |->
        CHOOSE x \in S : Cardinality({y \in S : y < x}) = k - 1]

Returned(r) == pc = "returned" /\ result = Some(r)
Cloud == is_some(provider) /\ requires_api_key(unwrap(provider))
Local == is_some(provider) /\ ~requires_api_key(unwrap(provider))
Serving(p) == provider = Some(p)

(***************************************************************************)
(* What a received line means, read off the protocol and not off the       *)
(* adapters' loops: its payload, its JSON value, its text, whether it is   *)
(* the terminal marker of the provider.                                    *)
(***************************************************************************)
Payload(line) == strip_prefix(line, "data: ")

Json(line) ==
    IF is_some(Payload(line)) THEN from_str(unwrap(Payload(line))) ELSE None

TerminalLine(p, line) ==
    CASE p = OpenAI -> Payload(line) = Some("[DONE]")
      [] p = Anthropic ->
            is_some(Json(line)) /\ unwrap(Json(line)).type = Some("message_stop")
      [] p = Google ->
            is_some(Json(line)) /\ is_some(unwrap(Json(line)).cand_finishReason)

LineText(p, line) ==
    IF ~is_some(Json(line)) THEN None
    ELSE CASE p = OpenAI -> unwrap(Json(line)).content
           [] p = Anthropic ->
                 IF unwrap(Json(line)).type = Some("content_block_delta")
                 THEN unwrap(Json(line)).delta_text ELSE None
           [] p = Google -> unwrap(Json(line)).cand_text

\* A data: line whose payload the adapter hands to serde_json, which
\* rejects it.  stream_openai compares the payload with [DONE] first.
RejectedLine(p, line) ==
    /\ is_some(Payload(line))
    /\ ~is_some(Json(line))
    /\ ~(p = OpenAI /\ unwrap(Payload(line)) = "[DONE]")

\* The position of the first terminal marker among the lines, or 0.
FirstTerminal(p, ls) ==
    LET T == {i \in 1..Len(ls) : TerminalLine(p, ls[i])} IN
    IF T = {} THEN 0 ELSE CHOOSE i \in T : \A j \in T : i <= j

\* The lines up to and including the first terminal marker.
Processed(p, ls) ==
    IF FirstTerminal(p, ls) = 0 THEN ls ELSE SubSeq(ls, 1, FirstTerminal(p, ls))

ExpectedFragments(p, ls) ==
    LET HasText(l) == is_some(LineText(p, l))
        texts == SelectSeq(Processed(p, ls), HasText)
    IN  [i \in 1..Len(texts) |-> unwrap(LineText(p, texts[i]))]

(***************************************************************************)
(* The tokens generated by a local session, and the fragments they are to  *)
(* give.                                                                   *)
(***************************************************************************)
Generated(sess) ==
    SubSeq(sess.all_tokens,
           Len(sess.all_tokens) - sess.generated_tokens + 1, Len(sess.all_tokens))

RECURSIVE DecodedText(_, _)
DecodedText(g, k) ==
    IF k = 0 THEN ""
    ELSE DecodedText(g, k - 1) \o
         (IF ~is_eog_token(g[k]) /\ is_some(token_to_str(g[k]))
          THEN unwrap(token_to_str(g[k])) ELSE "")

EmittedToken(g, k) ==
    /\ ~is_eog_token(g[k])
    /\ is_some(token_to_str(g[k]))
    /\ unwrap(token_to_str(g[k])) \notin {"", "<unk>", " <unk>"}
    /\ ~should_stop(DecodedText(g, k))

ExpectedLocalFragments(g) ==
    LET ks == Ascending({k \in 1..Len(g) : EmittedToken(g, k)}) IN
    [i \in 1..Len(ks) |-> unwrap(token_to_str(g[ks[i]]))]

(***************************************************************************)
(* The tool-call fragments and the completion signals of an OpenAI stream, *)
(* in arrival order: every element of a tool_calls array is an item, every *)
(* finish_reason "tool_calls" and the [DONE] marker is a completion.       *)
(***************************************************************************)
CallItem(call) == [kind |-> "call", call |-> call]
CompleteItem == [kind |-> "complete", call |-> Call(None, None)]

LineItems(line) ==
    IF Payload(line) = Some("[DONE]") THEN <<CompleteItem>>
    ELSE IF ~is_some(Json(line)) THEN <<>>
    ELSE LET json == unwrap(Json(line))
             calls == IF is_some(json.tool_calls) THEN unwrap(json.tool_calls)
                      ELSE <<>>
         IN  [i \in 1..Len(calls) |-> CallItem(calls[i])] \o
             (IF json.finish_reason = Some("tool_calls") THEN <<CompleteItem>>
              ELSE <<>>)

RECURSIVE ItemsOf(_)
ItemsOf(ls) == IF ls = <<>> THEN <<>> ELSE LineItems(Head(ls)) \o ItemsOf(Tail(ls))

\* The items of the lines the OpenAI adapter has worked through.
Items == ItemsOf(Processed(OpenAI, received))

Begins(E, j) == E[j].kind = "call" /\ is_some(E[j].call.id)
Completes(E, c) == E[c].kind = "complete"

\* The last fragment before position c that carries an id, or 0.
LastBegin(E, c) ==
    LET B == {j \in 1..(c - 1) : Begins(E, j)} IN IF B = {} THEN 0 ELSE Max(B)

\* The completion at c finds a call pending: one was begun, and no
\* completion came since.
FindsPending(E, c) ==
    /\ Completes(E, c)
    /\ LastBegin(E, c) > 0
    /\ \A k \in (LastBegin(E, c) + 1)..(c - 1) : ~Completes(E, k)

NameDelta(item) ==
    IF item.kind = "call" /\ is_some(item.call.function)
       /\ is_some(unwrap(item.call.function).name)
    THEN unwrap(unwrap(item.call.function).name) ELSE ""

ArgumentsDelta(item) ==
    IF item.kind = "call" /\ is_some(item.call.function)
       /\ is_some(unwrap(item.call.function).arguments)
    THEN unwrap(unwrap(item.call.function).arguments) ELSE ""

\* The deltas of the items from..to, concatenated in arrival order.
RECURSIVE NameFrom(_, _, _)
NameFrom(E, from, to) ==
    IF from > to THEN "" ELSE NameDelta(E[from]) \o NameFrom(E, from + 1, to)

RECURSIVE ArgumentsFrom(_, _, _)
ArgumentsFrom(E, from, to) ==
    IF from > to THEN ""
    ELSE ArgumentsDelta(E[from]) \o ArgumentsFrom(E, from + 1, to)

\* The positions of the completions that find a call pending, ascending.
Executions(E) == Ascending({c \in 1..Len(E) : FindsPending(E, c)})

\* The call begun at j is replaced: another one is begun before a completion.
Replaced(E, j) ==
    /\ Begins(E, j)
    /\ \E j2 \in (j + 1)..Len(E) :
          Begins(E, j2) /\ \A k \in (j + 1)..(j2 - 1) : ~Completes(E, k)

\* The call that is pending after the items E, if any.
ExpectedPending(E) ==
    LET b == LastBegin(E, Len(E) + 1) IN
    IF b = 0 \/ \E k \in (b + 1)..Len(E) : Completes(E, k) THEN None
    ELSE Some(PendingToolCall(unwrap(E[b].call.id),
                              NameFrom(E, b, Len(E)), ArgumentsFrom(E, b, Len(E))))

BegunCalls(E) == Cardinality({j \in 1..Len(E) : Begins(E, j)})
Completions(E) == Cardinality({c \in 1..Len(E) : Completes(E, c)})

(***************************************************************************)
(* Properties of the stream of events.                                     *)
(***************************************************************************)

\* C1: when an invocation has ended without an error -- the terminal marker
\* was received, the provider closed the connection without one, a stop
\* condition was met or the token budget ran out -- the sink has received
\* exactly one chunk with done = true.
C1_ExactlyOneDone == Returned("Ok") => DoneCount(events) = 1

\* C2: the step at which an invocation fails (an HTTP error, a non-success
\* status, a failure to set up the local model, a failed decode step) emits
\* no chunk with done = true and none was emitted before it; it returns the
\* error; it takes back nothing that was delivered; and when the failure is a
\* non-success status, no fragment was ever emitted and no tool was executed.
C2_FatalError ==
    [][ (pc' = "returned" /\ result' # Some("Ok")) =>
            /\ is_some(result')
            /\ IsPrefix(events, events')
            /\ DoneCount(events') = 0
            /\ (result' = Some("ApiError") => events' = <<>> /\ tool_log' = <<>>)
      ]_vars

\* A stream fails after fragments were delivered and a tool was executed.
C2_Witness ==
    /\ Returned("HttpError")
    /\ Fragments(events) # <<>>
    /\ tool_log # <<>>

\* C3: the fragments the sink has received are the texts of the events
\* received (cloud) or of the tokens generated (local), in their order, each
\* with done = false; a chunk with done = true has an empty text; and a chunk
\* with done = true is the last thing that happens: no event and no tool
\* execution follows it, whatever lines follow the terminal marker.
C3_OrderedThenTerminal ==
    /\ Cloud => Fragments(events) = ExpectedFragments(unwrap(provider), received)
    /\ Local => Fragments(events) = ExpectedLocalFragments(Generated(session))
    /\ \A i \in 1..Len(events) :
          IsDone(events[i]) =>
              /\ events[i].chunk = ""
              /\ i = Len(events)
              /\ pc = "returned"
              /\ \A k \in 1..Len(tool_log) : tool_log[k].at < i - 1

\* Fragments were delivered, then the terminal marker arrived, and a line
\* with a text follows the marker in the same chunk.
C3_Witness ==
    /\ Cloud
    /\ Returned("Ok")
    /\ Len(Fragments(events)) >= 2
    /\ DoneCount(events) = 1
    /\ LET p == unwrap(provider) IN
       /\ FirstTerminal(p, received) > 0
       /\ \E j \in (FirstTerminal(p, received) + 1)..Len(received) :
             is_some(LineText(p, received[j]))

(***************************************************************************)
(* Properties of the tool-call assembler of stream_openai.                 *)
(***************************************************************************)

\* C4: the tool name and the argument text handed to execute_tool for a
\* completed call are the name deltas and the arguments deltas received from
\* the fragment that carried the call's id up to the completion,
\* concatenated in arrival order.
C4_AssembledInArrivalOrder ==
    Serving(OpenAI) =>
        LET E == Items
            ex == Executions(E)
        IN  /\ Len(tool_log) = Len(ex)
            /\ \A k \in 1..Len(ex) :
                  /\ tool_log[k].name = NameFrom(E, LastBegin(E, ex[k]), ex[k] - 1)
                  /\ tool_log[k].arguments =
                        ArgumentsFrom(E, LastBegin(E, ex[k]), ex[k] - 1)

\* A call whose name and arguments came in three fragments is executed.
C4_Witness ==
    /\ Serving(OpenAI)
    /\ Len(tool_log) = 1
    /\ tool_log[1].name = "create_note"
    /\ tool_log[1].arguments = "{\"content\":\"hi\"}"
    /\ BegunCalls(Items) = 1
    /\ Cardinality({j \in 1..Len(Items) : ArgumentsDelta(Items[j]) # ""}) = 2

\* C5: a finish reason "tool_calls" executes the pending call while that
\* event is handled and leaves no call pending, so a call is executed at most
\* once: there are never more executions than calls begun, however many
\* finish reasons and [DONE] markers arrive.
C5_ExecutedAtMostOnce ==
    Serving(OpenAI) =>
        /\ Len(tool_log) <= BegunCalls(Items)
        /\ \A k, m \in 1..Len(tool_log) :
              k < m => tool_log[k].at < tool_log[m].at
        /\ (pc = "streaming" /\ received # <<>>
            /\ is_some(Json(received[Len(received)]))
            /\ unwrap(Json(received[Len(received)])).finish_reason = Some("tool_calls"))
           => /\ pending_tool = None
              /\ (BegunCalls(Items) > 0 => tool_log # <<>>)

\* One call was begun and executed, and a second completion signal arrived.
C5_Witness ==
    /\ Serving(OpenAI)
    /\ BegunCalls(Items) = 1
    /\ Completions(Items) >= 2
    /\ Len(tool_log) = 1

\* C6: when [DONE] arrives while a call is pending, the call is executed and
\* the notification is emitted before the done chunk, and no call is
\* pending when the invocation returns.
C6_DoneFlushesPending ==
    (Serving(OpenAI) /\ Returned("Ok") /\ FirstTerminal(OpenAI, received) > 0) =>
        /\ pending_tool = None
        /\ IsDone(events[Len(events)])
        /\ FindsPending(Items, Len(Items)) =>
              /\ tool_log # <<>>
              /\ LET last == tool_log[Len(tool_log)] IN
                 /\ last.id = unwrap(Items[LastBegin(Items, Len(Items))].call.id)
                 /\ last.at = Len(events) - 2
                 /\ IsRefresh(events[Len(events) - 1])

\* [DONE] arrived while a call was pending.
C6_Witness ==
    /\ Serving(OpenAI)
    /\ Returned("Ok")
    /\ FirstTerminal(OpenAI, received) > 0
    /\ FindsPending(Items, Len(Items))
    /\ Len(tool_log) = 1
    /\ tool_log[1].name = "delete_note"

C8_RefreshIffSuccess ==
    /\ \A k \in 1..Len(tool_log) :
          (/\ tool_log[k].at < Len(events)
           /\ IsRefresh(events[tool_log[k].at + 1])) <=> tool_log[k].ok
    /\ Len(SelectSeq(events, IsRefresh)) =
          Cardinality({k \in 1..Len(tool_log) : tool_log[k].ok})

\* The four tools and the fields their argument structs require.
ToolNames == {"create_note", "update_note", "delete_note", "list_notes"}

RequiredFields(name) ==
    CASE name = "create_note" -> {"content"}
      [] name = "update_note" -> {"id", "content"}
      [] name = "delete_note" -> {"id"}
      [] name = "list_notes" -> {}

\* The argument text parses against the schema of the tool.
ParsesAgainstSchema(name, arguments) ==
    /\ is_some(args_from_str(arguments))
    /\ \A f \in RequiredFields(name) : is_some(unwrap(args_from_str(arguments))[f])

\* The stream went on after the executions: every text of the lines worked
\* through was emitted, and a terminal marker received has ended the stream
\* with the done chunk.
StreamNotAborted ==
    /\ Fragments(events) = ExpectedFragments(OpenAI, received)
    /\ result \in {None, Some("Ok"), Some("HttpError")}
    /\ FirstTerminal(OpenAI, received) > 0 => Returned("Ok") /\ DoneCount(events) = 1

\* C9, as stated: an execution whose argument text does not parse against
\* the schema of the named tool, or whose tool name is not one of the four,
\* returns an error and leaves the note storage as it was, and the stream
\* goes on.
C9_RejectedCallsFail ==
    \A k \in 1..Len(tool_log) :
        (\/ tool_log[k].name \notin ToolNames
         \/ ~ParsesAgainstSchema(tool_log[k].name, tool_log[k].arguments))
        => ~tool_log[k].ok /\ ~tool_log[k].wrote /\ StreamNotAborted

\* C9, amended: list_notes does not read its argument text.  An execution
\* of create_note, update_note or delete_note whose argument text does not
\* parse against the schema of the tool, or an execution under any other
\* name than the four, returns an error and leaves the note storage as it
\* was; an execution of list_notes changes nothing either; and the stream
\* goes on.
C9_RejectedCallsFailUnlessList ==
    \A k \in 1..Len(tool_log) :
        /\ (\/ tool_log[k].name \notin ToolNames
            \/ /\ tool_log[k].name # "list_notes"
               /\ ~ParsesAgainstSchema(tool_log[k].name, tool_log[k].arguments))
           => ~tool_log[k].ok /\ ~tool_log[k].wrote /\ StreamNotAborted
        /\ tool_log[k].name = "list_notes" => ~tool_log[k].wrote /\ StreamNotAborted

\* create_note was executed with half of its arguments and failed; a text
\* fragment that came after it was emitted.
C9_Witness ==
    /\ Serving(OpenAI)
    /\ Len(tool_log) = 1
    /\ tool_log[1].name = "create_note"
    /\ ~ParsesAgainstSchema("create_note", tool_log[1].arguments)
    /\ ~tool_log[1].ok
    /\ \E i \in (tool_log[1].at + 2)..Len(events) : IsFragment(events[i])

\* C10: a data: line whose payload is not JSON produces nothing and changes
\* nothing: the events emitted, the pending call, the tools executed and the
\* note storage are those of the same lines without the rejected ones.
\* (The payload [DONE] is the terminal marker of stream_openai and is not
\* parsed there.)
C10_RejectedPayloadSkipped ==
    Cloud =>
        LET p == unwrap(provider)
            Kept(l) == ~RejectedLine(p, l)
            ref == for_lines(p,
                             [pending_tool |-> None, events |-> <<>>,
                              tool_log |-> <<>>, store |-> InitStore,
                              returned |-> FALSE],
                             SelectSeq(received, Kept), TRUE)
        IN  /\ events = ref.events
            /\ pending_tool = ref.pending_tool
            /\ tool_log = ref.tool_log
            /\ store = ref.store
            /\ pc = "streaming" => ~ref.returned

\* A rejected payload arrived between the fragments of a call, which was
\* then completed and executed.
C10_Witness ==
    /\ Serving(OpenAI)
    /\ Len(tool_log) = 1
    /\ tool_log[1].name = "create_note"
    /\ \E i \in 2..(Len(received) - 1) :
          /\ RejectedLine(OpenAI, received[i])
          /\ LineItems(received[i - 1]) # <<>>
          /\ LineItems(received[i + 1]) # <<>>

(***************************************************************************)
(* A response body that the network cuts anywhere.  A chunk may end inside *)
(* a line; the next chunk then begins with the rest of that line.  The     *)
(* adapters split every chunk on its own (text.lines() of the chunk), so   *)
(* `received` holds the two pieces as two lines.                           *)
(***************************************************************************)
\* The lines a cut body is made of, and the greatest number of lines and
\* pieces of lines the adapter works through.
MaxSplitLines == 3

SplitLines(p) ==
    CASE p = OpenAI ->
            {DataLine(d) : d \in OpenAiTextDocs} \cup
            {DataLine(d) : d \in {x \in OpenAiDocs :
                \/ x.value.content = Some("Hi")
                \/ x.value.finish_reason = Some("tool_calls")
                \/ (is_some(x.value.tool_calls)
                    /\ unwrap(x.value.tool_calls)[1].id = Some("c2"))}}
            \cup {DoneLine}
      [] p = Anthropic ->
            {DataLine(d) : d \in {x \in AnthropicDocs :
                \/ x.value.delta_text = Some("A")
                \/ x.value.type = Some("message_stop")}}
      [] p = Google ->
            {DataLine(d) : d \in {x \in GoogleDocs :
                \/ x.value.cand_text = Some("A")
                \/ x.value.cand_text = Some("C")}}

\* The lines of which the last line received is the beginning.
OpenLines(p, ls) ==
    IF ls = <<>> \/ ls[Len(ls)] \in SplitLines(p) THEN {}
    ELSE {l \in SplitLines(p) :
            Len(ls[Len(ls)]) < Len(l) /\ starts_with(l, ls[Len(ls)])}

\* The chunks that can follow the lines ls, room being the number of lines
\* and pieces that may still arrive.
PieceChunks(p, ls, room) ==
    IF OpenLines(p, ls) # {}
    THEN LET rests == {SubSeq(l, Len(ls[Len(ls)]) + 1, Len(l)) \o "\n" :
                          l \in OpenLines(p, ls)}
         IN  rests \cup
             (IF room >= 2
              THEN {r \o l \o "\n" : r \in rests, l \in SplitLines(p)} ELSE {})
    ELSE LET wholes == {l \o "\n" : l \in SplitLines(p)}
             heads == UNION {{SubSeq(l, 1, k) : k \in 1..(Len(l) - 1)} :
                                l \in SplitLines(p)}
         IN  (IF room >= 1 THEN wholes ELSE {}) \cup
             (IF room >= 2 THEN heads ELSE {}) \cup
             (IF room >= 3 THEN {w \o h : w \in wholes, h \in heads} ELSE {})

\* stream.next() yields Ok(chunk), the chunk ending anywhere.
RecvPiece ==
    /\ pc = "streaming"
    /\ \E chunk \in PieceChunks(unwrap(provider), received,
                                MaxSplitLines - Len(received)) :
          LET st == on_chunk(unwrap(provider), AdapterState, chunk, TRUE) IN
          /\ pending_tool' = st.pending_tool
          /\ events' = st.events
          /\ tool_log' = st.tool_log
          /\ store' = st.store
          /\ received' = received \o lines(chunk)
          /\ IF st.returned THEN Return("Ok")
             ELSE pc' = pc /\ result' = result
    /\ UNCHANGED <<active_provider, provider, session, ext_calls>>
    /\ UNCHANGED parser_vars
    /\ UNCHANGED sampler_vars
    /\ UNCHANGED desktop_vars
    /\ UNCHANGED concurrent_vars

NextSplit ==
    \/ Invoke
    \/ RecvPiece
    \/ StreamClosed
    \/ StreamError

SpecSplit == Init /\ [][NextSplit]_vars

\* C11: the adapters keep no state of the lines between chunks.  The two
\* pieces of a line that is divided between two chunks, at any offset inside
\* it, produce no fragment, no tool delta, no terminal action and no error
\* -- a divided data: [DONE] line included -- and the lines that lie inside
\* one chunk are processed as ever: the events, the pending call, the tools
\* executed and the note storage are those of the undivided lines alone.
C11_DividedLineLost ==
    Cloud =>
        LET p == unwrap(provider)
            Whole(l) == l \in SplitLines(p)
            ref == for_lines(p,
                             [pending_tool |-> None, events |-> <<>>,
                              tool_log |-> <<>>, store |-> InitStore,
                              returned |-> FALSE],
                             SelectSeq(received, Whole), TRUE)
        IN  /\ events = ref.events
            /\ pending_tool = ref.pending_tool
            /\ tool_log = ref.tool_log
            /\ store = ref.store
            /\ pc = "streaming" => ~ref.returned
            /\ result \in {None, Some("Ok"), Some("HttpError"), Some("ApiError"),
                           Some("NoApiKey")}
            /\ (\A i \in 1..Len(received) : ~Whole(received[i]))
                  => events = <<>> /\ tool_log = <<>>

\* data: [DONE] was divided between two chunks after a fragment was
\* delivered: the stream has not ended.
C11_Witness ==
    /\ Serving(OpenAI)
    /\ pc = "streaming"
    /\ Fragments(events) # <<>>
    /\ DoneCount(events) = 0
    /\ Len(received) >= 2
    /\ received[Len(received) - 1] \o received[Len(received)] = DoneLine
    /\ received[Len(received)] # DoneLine
    /\ received[Len(received)] # ""

(***************************************************************************)
(* The line splitting alone: the payloads that the loops                   *)
(* `for line in text.lines()` / `line.strip_prefix("data: ")` get from the *)
(* bytes of one chunk.                                                     *)
(***************************************************************************)
payloads(chunk) ==
    LET HasPrefix(l) == is_some(strip_prefix(l, "data: "))
        data == SelectSeq(lines(chunk), HasPrefix)
    IN  [i \in 1..Len(data) |-> unwrap(strip_prefix(data[i], "data: "))]

\* The greatest number of lines of a chunk, and of passes over it.
MaxParseLines == 3
MaxPasses == 2

\* The lines of the chunks: events, the terminal marker, an empty payload,
\* and lines that are no events: a blank line, an event: line, a comment,
\* data: without the space, data: after a space.
ParseLines ==
    {"data: [DONE]", "data: {\"a\":1}", "data: ",
     "", "event: ping", ": keep-alive", "data:{\"a\":1}", " data: [DONE]"}

\* The bytes of the lines ls, each ended by eol.
RECURSIVE Bytes(_, _)
Bytes(ls, eol) ==
    IF ls = <<>> THEN "" ELSE Head(ls) \o eol \o Bytes(Tail(ls), eol)

ParseInputs ==
    (UNION {[1..k -> ParseLines] : k \in 1..MaxParseLines}) \X {"\n", "\r\n"}

InitParse ==
    /\ active_provider = None
    /\ pc = "idle"
    /\ provider = None
    /\ result = None
    /\ pending_tool = None
    /\ events = <<>>
    /\ tool_log = <<>>
    /\ store = InitStore
    /\ received = <<>>
    /\ session = NoSession
    /\ ext_calls = <<>>
    /\ chunk_bytes \in {Bytes(in[1], in[2]) : in \in ParseInputs}
    /\ payload_lists = <<>>
    /\ sample_in = [candidates |-> <<>>, all_tokens |-> <<>>]
    /\ sample_out = <<>>
    /\ invocations = NoInvocations
    /\ deliveries = <<>>
    /\ InitDesktop

\* One pass of the line splitting over the bytes.
ParseChunk ==
    /\ Len(payload_lists) < MaxPasses
    /\ payload_lists' = Append(payload_lists, payloads(chunk_bytes))
    /\ UNCHANGED <<active_provider, pc, provider, result, pending_tool, events,
                   tool_log, store, received, session, ext_calls, chunk_bytes>>
    /\ UNCHANGED sampler_vars
    /\ UNCHANGED desktop_vars
    /\ UNCHANGED concurrent_vars

NextParse == ParseChunk

SpecParse == InitParse /\ [][NextParse]_vars

\* The lines the bytes were made of: the line and the line end that the
\* bytes begin with, then those of the rest.
RECURSIVE LinesOf(_)
LinesOf(bytes) ==
    IF bytes = "" THEN <<>>
    ELSE LET h == CHOOSE h \in ParseLines \X {"\n", "\r\n"} :
                      starts_with(bytes, h[1] \o h[2])
         IN  <<h[1]>> \o
             LinesOf(SubSeq(bytes, Len(h[1]) + Len(h[2]) + 1, Len(bytes)))

\* C12: the payloads got from a chunk are the remainders of its lines that
\* begin with the six characters `data: `, in the order of the lines; every
\* other line gives nothing; and every pass over the same bytes gives the
\* same list.
C12_PayloadsOfChunk ==
    LET IsData(l) == Len(l) >= 6 /\ SubSeq(l, 1, 6) = "data: "
        data == SelectSeq(LinesOf(chunk_bytes), IsData)
    IN  \A k \in 1..Len(payload_lists) :
           /\ Len(payload_lists[k]) = Len(data)
           /\ \A i \in 1..Len(data) :
                 payload_lists[k][i] = SubSeq(data[i], 7, Len(data[i]))
           /\ payload_lists[k] = payload_lists[1]

\* A chunk of an event, data: without the space and the terminal marker,
\* with CR LF line ends, was split twice.
C12_Witness ==
    /\ chunk_bytes = "data: {\"a\":1}\r\ndata:{\"a\":1}\r\ndata: [DONE]\r\n"
    /\ payload_lists = << <<"{\"a\":1}", "[DONE]">>, <<"{\"a\":1}", "[DONE]">> >>

\* C13: while an OpenAI stream is made of text deltas and [DONE] alone, the
\* fragments are the content strings in the order of the events, then, once
\* [DONE] has arrived, the one terminal event; no tool is executed, no
\* notification is emitted, no call is pending and no note is changed.
C13_TextOnlyStream ==
    LET IsText(l) == is_some(LineText(OpenAI, l))
                     /\ ~is_some(unwrap(Json(l)).tool_calls)
                     /\ ~is_some(unwrap(Json(l)).finish_reason)
        d == FirstTerminal(OpenAI, received)
        before == IF d = 0 THEN received ELSE SubSeq(received, 1, d - 1)
        texts == [i \in 1..Len(before) |->
                     AiStreamChunk(unwrap(LineText(OpenAI, before[i])), FALSE)]
    IN  (/\ Serving(OpenAI)
         /\ pc # "idle"
         /\ \A i \in 1..Len(received) : IsText(received[i]) \/ received[i] = DoneLine)
        => /\ tool_log = <<>>
           /\ pending_tool = None
           /\ store = InitStore
           /\ events = IF d = 0 THEN texts ELSE texts \o <<AiStreamChunk("", TRUE)>>
           /\ d > 0 => Returned("Ok")

\* "Hi", " there", then [DONE].
C13_Witness ==
    /\ Serving(OpenAI)
    /\ Returned("Ok")
    /\ Len(received) = 3
    /\ received[3] = DoneLine
    /\ events = <<AiStreamChunk("Hi", FALSE), AiStreamChunk(" there", FALSE),
                  AiStreamChunk("", TRUE)>>
    /\ tool_log = <<>>

(***************************************************************************)
(* Properties of the Anthropic and Google adapters.                        *)
(***************************************************************************)

\* C14: in the Anthropic adapter every content_block_delta event with a
\* text emits one fragment with that text; the first message_stop event
\* emits the terminal event and ends the invocation; an event of another
\* type, and a content_block_delta without a text, emits nothing and changes
\* nothing.
C14_AnthropicEvents ==
    Serving(Anthropic) =>
        LET Type(l) == IF is_some(Json(l)) THEN unwrap(Json(l)).type ELSE None
            Stops == {i \in 1..Len(received) : Type(received[i]) = Some("message_stop")}
            d == IF Stops = {} THEN 0 ELSE CHOOSE i \in Stops : \A j \in Stops : i <= j
            before == IF d = 0 THEN received ELSE SubSeq(received, 1, d - 1)
            HasText(l) == /\ Type(l) = Some("content_block_delta")
                          /\ is_some(unwrap(Json(l)).delta_text)
            deltas == SelectSeq(before, HasText)
            texts == [i \in 1..Len(deltas) |->
                         AiStreamChunk(unwrap(unwrap(Json(deltas[i])).delta_text), FALSE)]
        IN  /\ events = IF d = 0 THEN texts ELSE texts \o <<AiStreamChunk("", TRUE)>>
            /\ d > 0 => Returned("Ok")
            /\ pending_tool = None /\ tool_log = <<>> /\ store = InitStore

\* A text, a ping, a delta without a text, then message_stop.
C14_Witness ==
    /\ Serving(Anthropic)
    /\ Returned("Ok")
    /\ events = <<AiStreamChunk("A", FALSE), AiStreamChunk("", TRUE)>>
    /\ Len(received) = 4
    /\ \E i \in 2..3 : is_some(Json(received[i]))
                       /\ unwrap(Json(received[i])).type = Some("ping")
    /\ \E i \in 2..3 : is_some(Json(received[i]))
                       /\ unwrap(Json(received[i])).type = Some("content_block_delta")

\* C15: in the Google adapter the first event with a finishReason ends the
\* invocation with the terminal event, after the fragment of its own text
\* when it carries one; an event without a finishReason, or with a null
\* one, emits its text and does not end the stream.
C15_GoogleEvents ==
    Serving(Google) =>
        LET Finishes(l) == is_some(Json(l)) /\ is_some(unwrap(Json(l)).cand_finishReason)
            Ends == {i \in 1..Len(received) : Finishes(received[i])}
            d == IF Ends = {} THEN 0 ELSE CHOOSE i \in Ends : \A j \in Ends : i <= j
            upto == IF d = 0 THEN received ELSE SubSeq(received, 1, d)
            HasText(l) == is_some(Json(l)) /\ is_some(unwrap(Json(l)).cand_text)
            parts == SelectSeq(upto, HasText)
            texts == [i \in 1..Len(parts) |->
                         AiStreamChunk(unwrap(unwrap(Json(parts[i])).cand_text), FALSE)]
        IN  /\ events = IF d = 0 THEN texts ELSE texts \o <<AiStreamChunk("", TRUE)>>
            /\ d > 0 <=> (Returned("Ok") /\ DoneCount(events) = 1)

\* A text with a null finishReason, then a text with the finishReason STOP.
C15_Witness ==
    /\ Serving(Google)
    /\ Returned("Ok")
    /\ events = <<AiStreamChunk("D", FALSE), AiStreamChunk("C", FALSE),
                  AiStreamChunk("", TRUE)>>
    /\ Len(received) = 2

(***************************************************************************)
(* Properties of invoke_stream before the stream, and of the local engine. *)
(***************************************************************************)

\* C16: an invocation with no active provider selected fails with the
\* error NoActiveProvider, having called neither the secret store nor HTTP
\* nor the model library, and having emitted nothing.
C16_NoActiveProvider ==
    (pc = "returned" /\ provider = None) =>
        /\ result = Some("NoActiveProvider")
        /\ ext_calls = <<>>
        /\ events = <<>>

\* C17: for a local provider the invocation goes to the local engine and
\* never asks the secret store for a credential; for a cloud provider the
\* credential is fetched first, and when it is absent the invocation fails
\* with NoApiKey, having sent no HTTP request and emitted nothing.
C17_CredentialLookup ==
    pc # "idle" =>
        /\ provider \in {Some(Poro2_8B), Some(FinChatSummary)} =>
              /\ ext_calls # <<>>
              /\ ext_calls[1] = "is_model_downloaded"
              /\ \A i \in 1..Len(ext_calls) : ext_calls[i] \notin {"get_api_key", "send"}
        /\ provider \in {Some(OpenAI), Some(Anthropic), Some(Google)} =>
              /\ ext_calls # <<>>
              /\ ext_calls[1] = "get_api_key"
              /\ \A i \in 1..Len(ext_calls) : ext_calls[i] \in {"get_api_key", "send"}
              /\ result = Some("NoApiKey") => ext_calls = <<"get_api_key">> /\ events = <<>>
              /\ result # Some("NoApiKey") => ext_calls = <<"get_api_key", "send">>

\* A cloud provider without a credential.
C17_Witness ==
    /\ provider = Some(Anthropic)
    /\ Returned("NoApiKey")
    /\ ext_calls = <<"get_api_key">>
    /\ events = <<>>

\* C18: a local invocation that ends where the weights file is looked for
\* (the file being absent) fails with ModelNotDownloaded, for every local
\* provider and whatever the settings hold; no model load was attempted and
\* nothing was emitted.
C18_AbsentWeights ==
    (/\ provider \in {Some(Poro2_8B), Some(FinChatSummary)}
     /\ pc = "returned"
     /\ ext_calls = <<"is_model_downloaded">>)
    => /\ result = Some("ModelNotDownloaded")
       /\ events = <<>>

\* C19: a local session in which no end-of-generation token was selected
\* and no stop marker appeared, and which the token budget has ended, has
\* generated exactly MAX_TOKENS tokens, whatever the number of tokens of the
\* prompt, and has emitted the terminal event.
C19_BudgetCountsGenerated ==
    (/\ Local
     /\ Returned("Ok")
     /\ ~(session.n_cur < MAX_TOKENS)
     /\ \A k \in 1..Len(Generated(session)) : ~is_eog_token(Generated(session)[k])
     /\ ~should_stop(session.full_response))
    => /\ session.generated_tokens = MAX_TOKENS
       /\ DoneCount(events) = 1

\* C20: at the first decode step after which the decoded text holds a stop
\* marker, generation stops: that step is the last one, its token is not
\* emitted and is not fed back to the model, and the terminal event is
\* emitted, once.
C20_StopMarker ==
    Local =>
        LET g == Generated(session)
            Marked(k) == \E m \in 1..Len(stop_sequences) :
                            contains(DecodedText(g, k), stop_sequences[m])
        IN  /\ session.full_response = DecodedText(g, Len(g))
            /\ \A k \in 1..Len(g) :
                  Marked(k) =>
                     /\ k = Len(g)
                     /\ Returned("Ok")
                     /\ DoneCount(events) = 1
                     /\ Fragments(events) = ExpectedLocalFragments(SubSeq(g, 1, k - 1))
                     /\ session.n_cur = Len(session.all_tokens) - 1

\* "Kysy" was emitted, then "mys:" completed the marker "Kysymys:".
C20_Witness ==
    /\ Local
    /\ Returned("Ok")
    /\ session.full_response = "KysyKysymys:"
    /\ events = <<AiStreamChunk("Kysy", FALSE), AiStreamChunk("Kysy", FALSE),
                  AiStreamChunk("", TRUE)>>

(***************************************************************************)
(* The sampler alone: the penalty, the sort and the selection of lines     *)
(* 183-224 of run_local_inference, applied to a candidate list and a token *)
(* sequence that do not come from a session.                               *)
(***************************************************************************)
\* The greatest length of the token sequence, and the ids it is made of.
MaxWindow == 3
WindowIds == {1, 2, 3}

SampleInputs ==
    [candidates : Logits,
     all_tokens : UNION {[1..k -> WindowIds] : k \in 0..MaxWindow}]

InitSample ==
    /\ active_provider = None
    /\ pc = "idle"
    /\ provider = None
    /\ result = None
    /\ pending_tool = None
    /\ events = <<>>
    /\ tool_log = <<>>
    /\ store = InitStore
    /\ received = <<>>
    /\ session = NoSession
    /\ ext_calls = <<>>
    /\ chunk_bytes = ""
    /\ payload_lists = <<>>
    /\ sample_in \in SampleInputs
    /\ sample_out = <<>>
    /\ invocations = NoInvocations
    /\ deliveries = <<>>
    /\ InitDesktop

\* One pass of the sampler: the candidates after the penalty
\* (candidates_array.data at line 199), after the sort (line 204), and the
\* token selected (line 215).
SampleStep ==
    /\ Len(sample_out) < MaxPasses
    /\ LET data == apply_penalty(sample_in.candidates,
                                 recent_tokens(sample_in.all_tokens))
       IN  sample_out' = Append(sample_out,
               [data |-> data,
                sorted |-> sort_by_logit(data),
                token |-> sample(sample_in.candidates, sample_in.all_tokens)])
    /\ UNCHANGED <<active_provider, pc, provider, result, pending_tool, events,
                   tool_log, store, received, session, ext_calls, sample_in>>
    /\ UNCHANGED parser_vars
    /\ UNCHANGED concurrent_vars
    /\ UNCHANGED desktop_vars

NextSample == SampleStep

SpecSample == InitSample /\ [][NextSample]_vars

\* The ids among the last last_n tokens of a token sequence.
WindowOf(tokens) ==
    {tokens[i] : i \in {j \in 1..Len(tokens) : j > Len(tokens) - last_n}}

\* The raw score of the i-th candidate, and whether its id is in the window.
Raw(i) == sample_in.candidates[i].logit
InWindow(i) == sample_in.candidates[i].id \in WindowOf(sample_in.all_tokens)

\* C21 (as stated): the score of every candidate in the window is the raw
\* score times 1.2 when the raw score is positive and the raw score divided
\* by 1.2 when it is not; every other candidate keeps its score.
C21_PenaltyAsStated ==
    \A k \in 1..Len(sample_out) :
        LET data == sample_out[k].data IN
        /\ Len(data) = Len(sample_in.candidates)
        /\ \A i \in 1..Len(data) :
              /\ data[i].id = sample_in.candidates[i].id
              /\ IF ~InWindow(i) THEN data[i].logit = Raw(i)
                 ELSE IF Raw(i) > 0
                      THEN data[i].logit * PenaltyDen = Raw(i) * PenaltyNum
                      ELSE data[i].logit * PenaltyNum = Raw(i) * PenaltyDen

\* C21 (amended): the score of every candidate in the window is the raw
\* score divided by 1.2 when the raw score is positive and the raw score
\* times 1.2 when it is not; every other candidate keeps its score.
C21_PenaltyDividesPositive ==
    \A k \in 1..Len(sample_out) :
        LET data == sample_out[k].data IN
        /\ Len(data) = Len(sample_in.candidates)
        /\ \A i \in 1..Len(data) :
              /\ data[i].id = sample_in.candidates[i].id
              /\ IF ~InWindow(i) THEN data[i].logit = Raw(i)
                 ELSE IF Raw(i) > 0
                      THEN data[i].logit * PenaltyNum = Raw(i) * PenaltyDen
                      ELSE data[i].logit * PenaltyDen = Raw(i) * PenaltyNum

\* The sampler ran over candidates of which one in the window has a positive
\* score, one in the window a negative score, and one is not in the window.
C21_Witness ==
    /\ sample_out # <<>>
    /\ \E i, j, l \in 1..Len(sample_in.candidates) :
          /\ InWindow(i) /\ Raw(i) > 0 /\ sample_out[1].data[i].logit < Raw(i)
          /\ InWindow(j) /\ Raw(j) < 0 /\ sample_out[1].data[j].logit < Raw(j)
          /\ ~InWindow(l) /\ sample_out[1].data[l].logit = Raw(l)

\* The place of the candidate of index i in the sorted list.
PlaceOf(sorted, i) ==
    CHOOSE n \in 1..Len(sorted) : sorted[n].id = sample_in.candidates[i].id

\* C22: the penalised score of a candidate in the window is at most its raw
\* score, and less when the raw score is not zero; a candidate outside the
\* window that outranks one inside it by the raw scores (a greater score, or
\* the same score and an earlier place in the candidate order) still
\* outranks it in the sorted list.
C22_PenaltySuppresses ==
    \A k \in 1..Len(sample_out) :
        LET data == sample_out[k].data
            sorted == sample_out[k].sorted
            N == Len(sample_in.candidates)
        IN  /\ \A i \in 1..N :
                  InWindow(i) =>
                      /\ data[i].logit <= Raw(i)
                      /\ Raw(i) # 0 => data[i].logit < Raw(i)
            /\ \A a, b \in 1..N :
                  (/\ InWindow(a) /\ ~InWindow(b)
                   /\ \/ Raw(b) > Raw(a)
                      \/ Raw(b) = Raw(a) /\ b < a)
                  => PlaceOf(sorted, b) < PlaceOf(sorted, a)

\* The candidate with the greatest raw score is in the window, has a
\* positive score, and is no longer the first of the sorted list.
C22_Witness ==
    /\ sample_out # <<>>
    /\ \E a \in 1..Len(sample_in.candidates) :
          /\ InWindow(a)
          /\ Raw(a) > 0
          /\ \A b \in 1..Len(sample_in.candidates) : b # a => Raw(b) < Raw(a)
          /\ PlaceOf(sample_out[1].sorted, a) > 1

\* C24: the token selected is the id of the first candidate, in the order of
\* the candidate list, whose penalised score is the greatest of all; none is
\* selected only when the list is empty; and every pass over the same
\* candidates and tokens selects the same token.
C24_GreedyFirstMaximum ==
    \A k \in 1..Len(sample_out) :
        LET data == sample_out[k].data
            token == sample_out[k].token
        IN  /\ is_some(token) <=> data # <<>>
            /\ is_some(token) =>
                  \E i \in 1..Len(data) :
                     /\ unwrap(token) = data[i].id
                     /\ \A j \in 1..Len(data) : data[j].logit <= data[i].logit
                     /\ \A j \in 1..(i - 1) : data[j].logit < data[i].logit
            /\ token = sample_out[1].token

\* Two passes were made over candidates of which two have the greatest
\* penalised score, one of them brought down to it by the penalty; the
\* earlier of the two was selected both times.
C24_Witness ==
    /\ Len(sample_out) = MaxPasses
    /\ \E i, j \in 1..Len(sample_in.candidates) :
          /\ i < j
          /\ InWindow(j) /\ ~InWindow(i)
          /\ Raw(j) > Raw(i)
          /\ sample_out[1].data[i].logit = sample_out[1].data[j].logit
          /\ \A l \in 1..Len(sample_in.candidates) :
                sample_out[1].data[l].logit <= sample_out[1].data[i].logit
          /\ sample_out[1].token = Some(sample_in.candidates[i].id)
          /\ sample_out[MaxPasses].token = Some(sample_in.candidates[i].id)

(***************************************************************************)
(* The decode loop of a local session, step by step.                       *)
(***************************************************************************)
\* The invocation is at the head of an iteration of the decode loop.
LoopHead == pc = "decoding" /\ session.n_cur < MAX_TOKENS

\* The number of tokens of the prompt.
PromptLen(sess) == Len(sess.all_tokens) - sess.generated_tokens

\* C23: at the head of every iteration, the ids that the penalty applies to
\* are the ids among the last last_n tokens generated in this session; the
\* tokens of the prompt are not among the tokens it looks at.
C23_WindowOfGenerated ==
    LoopHead =>
        LET recent == recent_tokens(session.all_tokens)
        IN  {recent[i] : i \in 1..Len(recent)} = WindowOf(Generated(session))

\* A stop marker is in the text.
Marked(text) ==
    \E m \in 1..Len(stop_sequences) : contains(text, stop_sequences[m])

\* The text of a token is one that is emitted.
Emittable(t) ==
    /\ ~Vocab[t].eog
    /\ is_some(Vocab[t].text)
    /\ unwrap(Vocab[t].text) \notin {"", "<unk>", " <unk>"}

\* C25: an iteration that selects the token t emits the text of t as one
\* fragment when t is no end-of-generation token, is decoded, leaves the
\* accumulated text without a stop marker and has a text that is neither
\* empty nor the placeholder, and emits no fragment otherwise; after a token
\* that is skipped for being empty, a placeholder or undecodable, the loop
\* is at the head of its next iteration with the position advanced by one,
\* unless feeding the token to the model failed; and the fragments are never
\* more than the tokens generated.
C25_FragmentPerEmittableToken ==
    [][ (LoopHead /\ Len(session'.all_tokens) = Len(session.all_tokens) + 1) =>
          LET t == session'.all_tokens[Len(session'.all_tokens)]
              stopped == /\ ~Vocab[t].eog
                         /\ is_some(Vocab[t].text)
                         /\ Marked(session.full_response \o unwrap(Vocab[t].text))
              skipped == ~Vocab[t].eog /\ ~stopped /\ ~Emittable(t)
          IN  /\ IF Emittable(t) /\ ~stopped
                 THEN Fragments(events') =
                         Append(Fragments(events), unwrap(Vocab[t].text))
                 ELSE Fragments(events') = Fragments(events)
              /\ skipped =>
                    \/ /\ pc' = "decoding"
                       /\ session'.n_cur = session.n_cur + 1
                       /\ DoneCount(events') = 0
                    \/ /\ pc' = "returned"
                       /\ result' = Some("InferenceError")
              /\ Len(Fragments(events')) <= session'.generated_tokens ]_vars

\* The placeholder, an undecodable token and a text were generated, in this
\* order: the text alone was emitted.
C25_Witness ==
    /\ Local
    /\ Generated(session) = <<5, 6, 2>>
    /\ Fragments(events) = <<"Hi">>

\* The iterations of the decode loop begun so far.
Iterations(sess) ==
    (sess.n_cur - PromptLen(sess))
    + (IF pc = "returned" /\ sess.n_cur < MAX_TOKENS THEN 1 ELSE 0)

\* The decode loop runs in one task and is not suspended for ever: an
\* iteration that can begin does begin, and a loop that can end does end.
SpecLive == Spec /\ WF_vars(DecodeStep) /\ WF_vars(DecodeExit)

\* C26: a local session that has reached the decode loop returns; the loop
\* begins at most max(0, MAX_TOKENS - p) iterations, p being the number of
\* tokens of the prompt; no iteration follows one that selected an
\* end-of-generation token or completed a stop marker; and a session that
\* returns success has emitted the terminal event, once.
C26_LocalSessionTerminates ==
    /\ []((Local /\ session # NoSession) =>
            LET g == Generated(session) IN
            /\ Iterations(session) <= Max({0, MAX_TOKENS - PromptLen(session)})
            /\ \A k \in 1..(Len(g) - 1) :
                  /\ ~Vocab[g[k]].eog
                  /\ ~Marked(DecodedText(g, k))
            /\ (Len(g) > 0 /\ (Vocab[g[Len(g)]].eog \/ Marked(DecodedText(g, Len(g)))))
                  => pc = "returned"
            /\ Returned("Ok") => DoneCount(events) = 1)
    /\ (pc = "decoding") ~> (pc = "returned")

\* A session of a prompt of one token has used the whole budget and ended.
C26_Witness ==
    /\ Local
    /\ Returned("Ok")
    /\ PromptLen(session) = 1
    /\ session.generated_tokens = MAX_TOKENS - 1
    /\ session.n_cur = MAX_TOKENS
    /\ ~Marked(session.full_response)
    /\ \A k \in 1..Len(Generated(session)) : ~Vocab[Generated(session)[k]].eog

\* C27: at the head of every iteration n_cur is the length of the token
\* sequence; a step of the loop leaves the tokens already in the sequence as
\* they are and appends one token to them (none when no candidate is left,
\* the loop then ending); and the events already emitted stay as they are.
C27_TokensOnlyGrow ==
    /\ [](pc = "decoding" => session.n_cur = Len(session.all_tokens))
    /\ [][ pc = "decoding" =>
             /\ IsPrefix(session.all_tokens, session'.all_tokens)
             /\ IsPrefix(events, events')
             /\ \/ /\ Len(session'.all_tokens) = Len(session.all_tokens) + 1
                   /\ session'.generated_tokens = session.generated_tokens + 1
                \/ /\ session' = session
                   /\ pc' = "returned" ]_vars

\* Three steps were made after a prompt of one token; two fragments were
\* emitted.
C27_Witness ==
    /\ Local
    /\ PromptLen(session) = 1
    /\ session.generated_tokens = 3
    /\ Len(Fragments(events)) = 2

(***************************************************************************)
(* Calls of invoke_stream side by side.  invoke_ai_stream is an async      *)
(* command: the runtime runs each call in a task of its own.  The steps of *)
(* a call are the steps of Invoke, RecvChunk, DecodeStep and DecodeExit,   *)
(* on the locals of that call.                                             *)
(***************************************************************************)
\* may_start, were a call to wait for the calls in flight to return.
may_start_exclusive(i) ==
    \A j \in InvIds \ {i} : invocations[j].pc \in {"idle", "returned"}

\* The guard of active_provider is dropped at the end of the statement that
\* reads it (lines 158-162): no call waits for another one.
may_start(i) == TRUE

\* serving_provider, were the adapter to be chosen anew from active_provider
\* at every chunk.
serving_provider_active(inv) ==
    IF is_some(active_provider)
       /\ unwrap(active_provider) \in {OpenAI, Anthropic, Google}
    THEN unwrap(active_provider)
    ELSE unwrap(inv.provider)

\* `match provider`: the local read at the start of the call.
serving_provider(inv) == unwrap(inv.provider)

\* emit_aborts, were an Err of app.emit to be returned with `?`.
emit_aborts_on_failure(oks) == \E k \in DOMAIN oks : ~oks[k]

\* app.emit(...).ok(): the Result becomes an Option that is dropped; no
\* outcome of a delivery ends the call.
emit_aborts(oks) == FALSE

\* The response body that a provider sends to a call, line by line.
TwoScript(p) ==
    LET text(S, t) == DataLine(CHOOSE d \in S : d.value.content = Some(t))
        call == DataLine(CHOOSE d \in OpenAiDocs :
                    /\ is_some(d.value.tool_calls)
                    /\ unwrap(d.value.tool_calls)[1].id = Some("c2"))
        atext == DataLine(CHOOSE d \in AnthropicDocs : d.value.delta_text = Some("A"))
        astop == DataLine(CHOOSE d \in AnthropicDocs : d.value.type = Some("message_stop"))
        gtext(t) == DataLine(CHOOSE d \in GoogleDocs : d.value.cand_text = Some(t))
    IN  CASE p = OpenAI ->
                <<text(OpenAiDocs, "Hi"), call, text(OpenAiTextDocs, " there"), DoneLine>>
          [] p = Anthropic -> <<atext, astop>>
          [] p = Google -> <<gtext("A"), gtext("C")>>
          [] OTHER -> <<>>

\* What a local call finds: the weights are there, every library call
\* succeeds, the prompt is the BOS token; the model prefers the
\* end-of-generation token or the token of "Hi".
TwoEnvs ==
    {env \in LocalEnvs :
        /\ env.local_models = LocalProviders
        /\ env.downloaded
        /\ env.fault = "none"
        /\ Len(env.tokens) = 1}

TwoLogits ==
    { [i \in TokenIds |-> TokenData(i, IF i = a THEN 180 ELSE -30)] : a \in {1, 2} }

\* The events that a step hands to app.emit, with the call and the outcome
\* of each delivery.
Deliver(i, new_events, oks) ==
    /\ events' = new_events
    /\ deliveries' = deliveries \o
          [k \in 1..(Len(new_events) - Len(events)) |-> [by |-> i, ok |-> oks[k]]]

\* invoke_stream of the call i, up to the first await of the response body
\* or the head of the decode loop.
InvokeIn(i) ==
    /\ invocations[i].pc = "idle"
    /\ may_start(i)
    /\ IF active_provider = None
       THEN invocations' = [invocations EXCEPT ![i].pc = "returned",
                                               ![i].result = Some("NoApiKey")]
       ELSE LET p == unwrap(active_provider) IN
            IF ~requires_api_key(p)
            THEN \E env \in TwoEnvs :
                    LET r == local_setup(p, env) IN
                    invocations' = [invocations EXCEPT ![i] =
                        IF r = "Ok"
                        THEN Invocation("decoding", Some(p), None, None, <<>>,
                                        Session(env.tokens, Len(env.tokens), 0, 0, ""))
                        ELSE Invocation("returned", Some(p), Some(r), None, <<>>,
                                        NoSession)]
            ELSE invocations' = [invocations EXCEPT ![i] =
                    Invocation("streaming", Some(p), None, None, <<>>, NoSession)]
    /\ UNCHANGED <<active_provider, pc, provider, result, pending_tool, events,
                   tool_log, store, received, session, ext_calls, deliveries>>
    /\ UNCHANGED parser_vars
    /\ UNCHANGED sampler_vars
    /\ UNCHANGED desktop_vars

\* stream.next() of the call i yields the next line of the body; D holds
\* the outcomes that a delivery can have.
RecvLineIn(i, D) ==
    LET inv == invocations[i] IN
    /\ inv.pc = "streaming"
    /\ Len(inv.received) < Len(TwoScript(unwrap(inv.provider)))
    /\ LET line == TwoScript(unwrap(inv.provider))[Len(inv.received) + 1]
           st == on_chunk(serving_provider(inv),
                          [pending_tool |-> inv.pending_tool, events |-> events,
                           tool_log |-> tool_log, store |-> store,
                           returned |-> FALSE],
                          line \o "\n", TRUE)
       IN  \E oks \in [1..(Len(st.events) - Len(events)) -> D] :
              /\ Deliver(i, st.events, oks)
              /\ tool_log' = st.tool_log
              /\ store' = st.store
              /\ invocations' = [invocations EXCEPT ![i] =
                    IF emit_aborts(oks)
                    THEN Invocation("returned", inv.provider, Some("EmitError"),
                                    st.pending_tool, Append(inv.received, line),
                                    inv.session)
                    ELSE IF st.returned
                    THEN Invocation("returned", inv.provider, Some("Ok"),
                                    st.pending_tool, Append(inv.received, line),
                                    inv.session)
                    ELSE Invocation(inv.pc, inv.provider, inv.result,
                                    st.pending_tool, Append(inv.received, line),
                                    inv.session)]
    /\ UNCHANGED <<active_provider, pc, provider, result, pending_tool,
                   received, session, ext_calls>>
    /\ UNCHANGED parser_vars
    /\ UNCHANGED sampler_vars
    /\ UNCHANGED desktop_vars

\* One iteration of the decode loop of the call i.
DecodeStepIn(i, D) ==
    LET inv == invocations[i] IN
    /\ inv.pc = "decoding"
    /\ inv.session.n_cur < MAX_TOKENS
    /\ \E candidates \in TwoLogits :
          LET st == decode_iteration(inv.session, events, candidates, TRUE)
              new_events == IF st.outcome = "break"
                            THEN Append(st.events, AiStreamChunk("", TRUE))
                            ELSE st.events
          IN  \E oks \in [1..(Len(new_events) - Len(events)) -> D] :
                 /\ Deliver(i, new_events, oks)
                 /\ invocations' = [invocations EXCEPT ![i] =
                       IF emit_aborts(oks)
                       THEN Invocation("returned", inv.provider, Some("EmitError"),
                                       None, <<>>, st.session)
                       ELSE IF st.outcome = "break"
                       THEN Invocation("returned", inv.provider, Some("Ok"),
                                       None, <<>>, st.session)
                       ELSE Invocation(inv.pc, inv.provider, inv.result,
                                       None, <<>>, st.session)]
    /\ UNCHANGED <<active_provider, pc, provider, result, pending_tool, tool_log,
                   store, received, session, ext_calls>>
    /\ UNCHANGED parser_vars
    /\ UNCHANGED sampler_vars
    /\ UNCHANGED desktop_vars

\* The loop condition of the call i fails: the done chunk, then Ok(()).
DecodeExitIn(i, D) ==
    LET inv == invocations[i] IN
    /\ inv.pc = "decoding"
    /\ ~(inv.session.n_cur < MAX_TOKENS)
    /\ \E oks \in [1..1 -> D] :
          /\ Deliver(i, Append(events, AiStreamChunk("", TRUE)), oks)
          /\ invocations' = [invocations EXCEPT ![i] =
                Invocation("returned", inv.provider,
                           IF emit_aborts(oks) THEN Some("EmitError") ELSE Some("Ok"),
                           None, <<>>, inv.session)]
    /\ UNCHANGED <<active_provider, pc, provider, result, pending_tool, tool_log,
                   store, received, session, ext_calls>>
    /\ UNCHANGED parser_vars
    /\ UNCHANGED sampler_vars
    /\ UNCHANGED desktop_vars

\* AiManager::set_active_provider, with save_active_provider: a failure to
\* write the file is logged only.
SetActiveProvider(p) ==
    /\ active_provider' = Some(p)
    /\ \E save_ok \in BOOLEAN :
            provider_file' = IF save_ok THEN Some(as_str(p)) ELSE provider_file
    /\ UNCHANGED <<pc, provider, result, pending_tool, events, tool_log, store,
                   received, session, ext_calls, api_keys, command, model_fs,
                   downloads, window_file, window_cmds>>
    /\ UNCHANGED parser_vars
    /\ UNCHANGED sampler_vars
    /\ UNCHANGED concurrent_vars

NextTwo ==
    \/ \E i \in InvIds : InvokeIn(i)
    \/ \E i \in InvIds : RecvLineIn(i, {TRUE})
    \/ \E i \in InvIds : DecodeStepIn(i, {TRUE})
    \/ \E i \in InvIds : DecodeExitIn(i, {TRUE})
    \/ \E p \in all : SetActiveProvider(p)

SpecTwo == Init /\ [][NextTwo]_vars

\* One call, every delivery of which may fail.
NextLossy ==
    \/ InvokeIn(1)
    \/ RecvLineIn(1, BOOLEAN)
    \/ DecodeStepIn(1, BOOLEAN)
    \/ DecodeExitIn(1, BOOLEAN)

SpecLossy == Init /\ [][NextLossy]_vars

\* The events that the call i handed to app.emit, in order.
OwnEvents(i) ==
    LET ks == Ascending({k \in 1..Len(events) : deliveries[k].by = i}) IN
    [n \in 1..Len(ks) |-> events[ks[n]]]

\* The fragments that the backend of the provider read at the start of the
\* call i gives for what the call has received or generated.
BackendFragments(i) ==
    LET inv == invocations[i] IN
    IF requires_api_key(unwrap(inv.provider))
    THEN ExpectedFragments(unwrap(inv.provider), inv.received)
    ELSE ExpectedLocalFragments(Generated(inv.session))

\* C28: a call reads active_provider when it starts and keeps what it read;
\* the fragments of a call are at every moment those of the backend of the
\* provider it read, whatever active_provider has become since; and a step
\* that changes active_provider changes no call and emits nothing.
C28_ProviderReadOnce ==
    /\ [](\A i \in InvIds :
             is_some(invocations[i].provider) =>
                Fragments(OwnEvents(i)) = BackendFragments(i))
    /\ [][ /\ \A i \in InvIds :
                /\ invocations[i].pc # "idle" =>
                      invocations'[i].provider = invocations[i].provider
                /\ (invocations[i].pc = "idle" /\ invocations'[i].pc # "idle") =>
                      invocations'[i].provider = active_provider
           /\ active_provider' # active_provider =>
                 (invocations' = invocations /\ events' = events) ]_vars

\* A call started on OpenAI and a call started on Anthropic are in flight;
\* the fragment of the second lies between the two fragments of the first.
C28_Witness ==
    /\ invocations[1].provider = Some(OpenAI)
    /\ invocations[2].provider = Some(Anthropic)
    /\ invocations[1].pc = "streaming"
    /\ invocations[2].pc = "streaming"
    /\ active_provider = Some(Anthropic)
    /\ events = <<AiStreamChunk("Hi", FALSE), AiStreamChunk("A", FALSE),
                  AiStreamChunk(" there", FALSE)>>
    /\ [k \in 1..3 |-> deliveries[k].by] = <<1, 2, 1>>

\* C29: a call that has not started can start whatever the state of the
\* other calls; every event is an ai-stream-chunk or a refresh-required
\* event without any field that names a call; and every call that returns
\* success has emitted its own terminal event.
C29_NotMutuallyExcluded ==
    /\ \A i \in InvIds : invocations[i].pc = "idle" => ENABLED InvokeIn(i)
    /\ \A k \in 1..Len(events) :
          /\ DOMAIN events[k] = {"event", "chunk", "done"}
          /\ events[k].event \in {"ai-stream-chunk", "refresh-required"}
    /\ \A i \in InvIds :
          DoneCount(OwnEvents(i)) =
             (IF invocations[i].result = Some("Ok") THEN 1 ELSE 0)

\* Both calls have returned; a fragment of the second call was emitted
\* between two fragments of the first, and the sink has the terminal events
\* of both.
C29_Witness ==
    /\ \A i \in InvIds : invocations[i].result = Some("Ok")
    /\ DoneCount(events) = 2
    /\ \E a, b, c \in 1..Len(events) :
          /\ a < b /\ b < c
          /\ IsFragment(events[a]) /\ IsFragment(events[b]) /\ IsFragment(events[c])
          /\ deliveries[a].by = 1 /\ deliveries[b].by = 2 /\ deliveries[c].by = 1

\* C30: whatever the outcome of each delivery, no call ends with an error
\* of the sink; the events handed to app.emit are those of the lines
\* received or the tokens generated; a stream whose terminal marker has
\* arrived has returned success after the terminal event; and the tool call
\* that was pending has been executed once, followed by its notification.
C30_DeliveryBestEffort ==
    LET inv == invocations[1] IN
    /\ inv.result \in {None, Some("Ok"), Some("NoApiKey")}
    /\ is_some(inv.provider) =>
          /\ Fragments(events) = BackendFragments(1)
          /\ DoneCount(events) = (IF inv.result = Some("Ok") THEN 1 ELSE 0)
          /\ requires_api_key(unwrap(inv.provider)) =>
                LET p == unwrap(inv.provider) IN
                /\ FirstTerminal(p, inv.received) # 0 <=> inv.result = Some("Ok")
                /\ (p = OpenAI /\ inv.result = Some("Ok")) =>
                      /\ Len(tool_log) = 1
                      /\ tool_log[1].name = "delete_note"
                      /\ tool_log[1].ok
                      /\ Len(SelectSeq(events, IsRefresh)) = 1
          /\ (~requires_api_key(unwrap(inv.provider)) /\ inv.pc = "decoding") =>
                inv.session.n_cur = Len(inv.session.all_tokens)

\* No delivery of an OpenAI stream succeeded: not of the two fragments, not
\* of the notification, not of the terminal event; the note was deleted and
\* the call returned success.
C30_Witness ==
    /\ invocations[1].provider = Some(OpenAI)
    /\ invocations[1].result = Some("Ok")
    /\ Len(events) = 4
    /\ \A k \in 1..Len(deliveries) : ~deliveries[k].ok
    /\ Len(tool_log) = 1
    /\ tool_log[1].wrote

(***************************************************************************)
(* An OpenAI stream whose events carry several things at once.             *)
(***************************************************************************)
\* The greatest number of lines of such a stream.
MaxEventLines == 3

EventLines ==
    {DataLine(d) : d \in OpenAiFullDocs} \cup
    {DataLine(d) : d \in {x \in OpenAiDocs :
        /\ is_some(x.value.tool_calls)
        /\ \/ unwrap(x.value.tool_calls)[1].id = Some("c1")
           \/ (is_some(unwrap(x.value.tool_calls)[1].function)
               /\ unwrap(unwrap(x.value.tool_calls)[1].function).name = Some("note"))}}
    \cup {DoneLine}

\* stream.next() yields Ok(chunk): one event of the stream.
RecvEvent ==
    /\ pc = "streaming"
    /\ provider = Some(OpenAI)
    /\ Len(received) < MaxEventLines
    /\ \E line \in EventLines :
          LET st == on_chunk(OpenAI, AdapterState, line \o "\n", TRUE) IN
          /\ pending_tool' = st.pending_tool
          /\ events' = st.events
          /\ tool_log' = st.tool_log
          /\ store' = st.store
          /\ received' = Append(received, line)
          /\ IF st.returned THEN Return("Ok")
             ELSE pc' = pc /\ result' = result
    /\ UNCHANGED <<active_provider, provider, session, ext_calls>>
    /\ UNCHANGED parser_vars
    /\ UNCHANGED sampler_vars
    /\ UNCHANGED desktop_vars
    /\ UNCHANGED concurrent_vars

SpecEvents == Init /\ [][Invoke \/ RecvEvent \/ StreamClosed]_vars

\* The last line received is an event with a text, a tool-call delta and
\* the finish reason "tool_calls".
FullEventLast ==
    /\ received # <<>>
    /\ received[Len(received)] \in {DataLine(d) : d \in OpenAiFullDocs}

\* C32: an event that carries a text, a delta of the arguments and the
\* finish reason "tool_calls" while a call is pending gives, in this order,
\* the fragment of the text, then the execution of the call with the delta
\* at the end of its arguments, then the notification; no call is pending
\* after it.
C32_StepsInOrder ==
    (Serving(OpenAI) /\ FullEventLast
     /\ is_some(ExpectedPending(ItemsOf(SubSeq(received, 1, Len(received) - 1)))))
    => LET before == unwrap(ExpectedPending(
                        ItemsOf(SubSeq(received, 1, Len(received) - 1))))
           n == Len(events)
           last == tool_log[Len(tool_log)]
       IN  /\ n >= 2 /\ tool_log # <<>>
           /\ events[n - 1] = AiStreamChunk("Hi", FALSE)
           /\ events[n] = RefreshRequired
           /\ last.at = n - 1
           /\ last.name = before.name
           /\ last.arguments = before.arguments \o "\"hi\"}"
           /\ pending_tool = None

\* The name and the first half of the arguments came in two events, the
\* second half with a text and the finish reason in a third: create_note
\* was executed with the whole arguments, after the text was emitted.
C32_Witness ==
    /\ Serving(OpenAI)
    /\ Len(received) = 3
    /\ FullEventLast
    /\ events = <<AiStreamChunk("Hi", FALSE), RefreshRequired>>
    /\ Len(tool_log) = 1
    /\ tool_log[1].name = "create_note"
    /\ tool_log[1].arguments = "{\"content\":\"hi\"}"
    /\ tool_log[1].ok

\* The item at j is a delta of a call that finds no call pending.
Orphan(E, j) ==
    /\ E[j].kind = "call"
    /\ ~is_some(E[j].call.id)
    /\ ~is_some(ExpectedPending(SubSeq(E, 1, j - 1)))

\* C33: a delta without an id that finds no call pending -- none was begun,
\* or the one begun was completed -- begins none: no call is pending after
\* it, the executions are those of the calls begun with an id alone, none
\* of them with the dropped delta in its name or arguments, and as long as
\* no call was begun nothing is executed, [DONE] included.
C33_OrphanDeltaDropped ==
    Serving(OpenAI) =>
        LET E == Items
            ex == Executions(E)
        IN  /\ (pc = "streaming" /\ E # <<>> /\ Orphan(E, Len(E)))
                  => pending_tool = None
            /\ BegunCalls(E) = 0 => (tool_log = <<>> /\ pending_tool = None)
            /\ Len(tool_log) = Len(ex)
            /\ \A k \in 1..Len(ex) :
                  /\ tool_log[k].id = unwrap(E[LastBegin(E, ex[k])].call.id)
                  /\ tool_log[k].name = NameFrom(E, LastBegin(E, ex[k]), ex[k] - 1)
                  /\ tool_log[k].arguments =
                        ArgumentsFrom(E, LastBegin(E, ex[k]), ex[k] - 1)

\* A call was begun and completed; a delta of a name and of arguments came
\* after it, then [DONE]: one execution, that of the call begun.
C33_Witness ==
    /\ Serving(OpenAI)
    /\ Returned("Ok")
    /\ Len(Items) = 4
    /\ Begins(Items, 1) /\ Completes(Items, 2)
    /\ Orphan(Items, 3) /\ ArgumentsDelta(Items[3]) # ""
    /\ Completes(Items, 4)
    /\ Len(tool_log) = 1
    /\ tool_log[1].name = "create_"
    /\ tool_log[1].arguments = ""

\* The fragments, one after the other.
RECURSIVE Concat(_)
Concat(texts) == IF texts = <<>> THEN "" ELSE Head(texts) \o Concat(Tail(texts))

\* C34: in a local session the fragments emitted, put one after the other,
\* hold no stop marker.
C34_NoMarkerInFragments ==
    Local => ~Marked(Concat(Fragments(events)))

\* C35: no invocation returns UnsupportedProvider; a provider that requires
\* a key is served by one of the three cloud adapters, every other one by
\* the local engine.
C35_NoUnsupportedProvider ==
    /\ result # Some("UnsupportedProvider")
    /\ is_some(provider) =>
          LET p == unwrap(provider) IN
          /\ p \in {OpenAI, Anthropic, Google} =>
                (pc # "decoding" /\ session = NoSession
                 /\ (ext_calls # <<>> => ext_calls[1] = "get_api_key"))
          /\ p \in {Poro2_8B, FinChatSummary} =>
                (pc # "streaming" /\ received = <<>>
                 /\ (ext_calls # <<>> => ext_calls[1] = "is_model_downloaded"))

\* Poro2_8B is in the decode loop; no credential was looked up.
C35_Witness ==
    /\ Serving(Poro2_8B)
    /\ pc = "decoding"
    /\ ext_calls[1] = "is_model_downloaded"

(***************************************************************************)
(* card_manager.rs, with the names of the card files.  A card file is its  *)
(* name, and the id and the content it holds; `fault` names the file       *)
(* system operation that fails during the call, if one does.               *)
(***************************************************************************)
CardFile(name, card) == [name |-> name, id |-> card.id, content |-> card.content]

\* The file system operations of the three commands that may fail.
CreateFaults == {"none", "write"}
UpdateFaults == {"none", "write", "rename"}
DeleteFaults == {"none", "remove"}

\* The contents the card commands are called with.
CardContents == {"# A", "# A\nx", "#B?"}

\* The cards one run creates.
MaxCards == 2

\* str::trim.
trim(s) ==
    LET ink == {i \in 1..Len(s) : SubSeq(s, i, i) \notin {" ", "\t", "\r", "\n"}}
        lo == CHOOSE i \in ink : \A j \in ink : i <= j
        hi == CHOOSE i \in ink : \A j \in ink : j <= i
    IN  IF ink = {} THEN "" ELSE SubSeq(s, lo, hi)

RECURSIVE trim_start_matches(_, _)
trim_start_matches(s, p) ==
    IF starts_with(s, p)
    THEN trim_start_matches(SubSeq(s, Len(p) + 1, Len(s)), p) ELSE s

RECURSIVE trim_end_matches(_, _)
trim_end_matches(s, p) ==
    IF Len(s) >= Len(p) /\ SubSeq(s, Len(s) - Len(p) + 1, Len(s)) = p
    THEN trim_end_matches(SubSeq(s, 1, Len(s) - Len(p)), p) ELSE s

extract_title_from_content(content) ==
    LET ls == lines(content)
        heading(l) ==
            LET trimmed == trim(l) IN
            IF starts_with(trimmed, "# ")
            THEN trim(trim_start_matches(trimmed, "# "))
            ELSE IF starts_with(trimmed, "#")
            THEN trim(trim_start_matches(trimmed, "#"))
            ELSE ""
        headings == {j \in 1..Len(ls) : heading(ls[j]) # ""}
        plain == {j \in 1..Len(ls) :
                    trim(ls[j]) # "" /\ ~starts_with(trim(ls[j]), "---")}
        first(S) == CHOOSE j \in S : \A k \in S : j <= k
        title == trim(ls[first(plain)])
    IN  IF headings # {} THEN heading(ls[first(headings)])
        ELSE IF plain # {}
        THEN IF Len(title) > 50 THEN SubSeq(title, 1, 50) \o "..." ELSE title
        ELSE "Muistiinpano"

\* The nine replacements of sanitize_filename, character by character.
RECURSIVE replace_invalid(_)
replace_invalid(s) ==
    IF s = "" THEN ""
    ELSE LET c == SubSeq(s, 1, 1)
             r == CASE c \in {"\\", "/", ":", "*", "|"} -> "-"
                    [] c = "?" -> ""
                    [] c = "\"" -> "'"
                    [] c = "<" -> "("
                    [] c = ">" -> ")"
                    [] OTHER -> c
         IN  r \o replace_invalid(SubSeq(s, 2, Len(s)))

sanitize_filename(title) ==
    LET trimmed == trim_end_matches(trim(replace_invalid(title)), ".")
        limited == IF Len(trimmed) > 100 THEN trim(SubSeq(trimmed, 1, 100))
                   ELSE trimmed
    IN  IF limited = "" THEN "Untitled" ELSE limited

\* "{base} ({counter}).md".
numbered_name(base_name, counter) ==
    base_name \o " (" \o ToString(counter) \o ").md"

\* get_unique_filename over the names that exist in the cards directory.  The
\* loop stops at the first counter whose name is free, which is at most two
\* more than the number of names; the fallback after counter 1000 is out of
\* reach of the runs modelled.
get_unique_filename(names, base_name) ==
    IF base_name \o ".md" \notin names THEN base_name \o ".md"
    ELSE LET free == {k \in 2..(Cardinality(names) + 2) :
                        numbered_name(base_name, k) \notin names}
         IN  numbered_name(base_name, CHOOSE k \in free : \A j \in free : k <= j)

file_names(s) == {f.name : f \in s.files}

\* get_card_file_path: the file whose front matter holds the id.
get_card_file_path(s, id) ==
    IF has_file(s, id) THEN Some((CHOOSE f \in s.files : f.id = id).name)
    ELSE None

get_new_card_file_path(s, content) ==
    get_unique_filename(file_names(s),
                        sanitize_filename(extract_title_from_content(content)))

\* fs::write: the file at the path holds the card afterwards.
fs_write(s, path, card) ==
    [s EXCEPT !.files = {f \in @ : f.name # path} \cup {CardFile(path, card)}]

save_card_to_file(s, card, fault) ==
    LET found == get_card_file_path(s, card.id)
        file_path == IF is_some(found) THEN unwrap(found)
                     ELSE get_new_card_file_path(s, card.content)
    IN  IF fault = "write" THEN Err(s) ELSE Ok(fs_write(s, file_path, card))

card_manager_create_card(s, content, fault) ==
    LET card == Card(uuid(s.uuids + 1), content)
        s1 == [s EXCEPT !.uuids = @ + 1, !.CARDS = Append(@, card)]
    IN  save_card_to_file(s1, card, fault)

card_manager_update_card(s, id, content, fault) ==
    IF ~has_card(s, id) THEN Err(s)
    ELSE LET i == CHOOSE k \in 1..Len(s.CARDS) :
                    /\ s.CARDS[k].id = id
                    /\ \A j \in 1..(k - 1) : s.CARDS[j].id # id
             old_path == get_card_file_path(s, id)
             s1 == [s EXCEPT !.CARDS[i].content = content]
             updated == s1.CARDS[i]
         IN  IF is_some(old_path)
             THEN IF fault = "write" THEN Err(s1)
                  ELSE LET s2 == fs_write(s1, unwrap(old_path), updated)
                           new_path == get_new_card_file_path(s2, updated.content)
                       IN  IF unwrap(old_path) # new_path
                           THEN IF fault = "rename" THEN Err(s2)
                                ELSE Ok(fs_write([s2 EXCEPT !.files =
                                            {f \in @ : f.name # unwrap(old_path)}],
                                         new_path, updated))
                           ELSE Ok(s2)
             ELSE save_card_to_file(s1, updated, fault)

card_manager_delete_card(s, id, fault) ==
    LET kept == SelectSeq(s.CARDS, LAMBDA c : c.id # id)
        s1 == [s EXCEPT !.CARDS = kept]
        file_path == get_card_file_path(s1, id)
    IN  IF Len(kept) = Len(s.CARDS) THEN Err(s)
        ELSE IF ~is_some(file_path) THEN Err(s1)
        ELSE IF fault = "remove" THEN Err(s1)
        ELSE Ok([s1 EXCEPT !.files = {f \in @ : f.name # unwrap(file_path)}])

\* The ids the card commands are called with: those drawn so far, and one
\* that no card has.
CardIds == {uuid(k) : k \in 1..MaxCards} \cup {"n0"}

\* The file name is the one made from the title, or one of its numbered forms.
NamedAfter(name, title) ==
    LET base_name == sanitize_filename(title) IN
    \/ name = base_name \o ".md"
    \/ \E k \in 2..(MaxCards + 2) : name = numbered_name(base_name, k)

\* What is kept of a card command that returned: whether it returned Ok,
\* whether it left CARDS as it was, whether the card had a file named after
\* the title of the content handed in, and whether the card is in the file of
\* the same name as before.
CardReturned(name, id, content, r) ==
    LET path_before == get_card_file_path(store, id) IN
    [name |-> name, ok |-> r.ok,
     list_kept |-> (r.store.CARDS = store.CARDS),
     title_kept |-> /\ is_some(path_before)
                    /\ NamedAfter(unwrap(path_before),
                                  extract_title_from_content(content)),
     path_kept |-> (get_card_file_path(r.store, id) = path_before)]

CreateCard(content, fault) ==
    /\ store.uuids < MaxCards
    /\ LET r == card_manager_create_card(store, content, fault) IN
        /\ store' = r.store
        /\ command' = CardReturned("create_card", uuid(store.uuids + 1), content, r)
    /\ UNCHANGED <<active_provider, pc, provider, result, pending_tool, events,
                   tool_log, received, session, ext_calls, api_keys,
                   provider_file, model_fs, downloads, window_file, window_cmds>>
    /\ UNCHANGED parser_vars
    /\ UNCHANGED sampler_vars
    /\ UNCHANGED concurrent_vars

UpdateCard(id, content, fault) ==
    /\ LET r == card_manager_update_card(store, id, content, fault) IN
        /\ store' = r.store
        /\ command' = CardReturned("update_card", id, content, r)
    /\ UNCHANGED <<active_provider, pc, provider, result, pending_tool, events,
                   tool_log, received, session, ext_calls, api_keys,
                   provider_file, model_fs, downloads, window_file, window_cmds>>
    /\ UNCHANGED parser_vars
    /\ UNCHANGED sampler_vars
    /\ UNCHANGED concurrent_vars

DeleteCard(id, fault) ==
    /\ LET r == card_manager_delete_card(store, id, fault) IN
        /\ store' = r.store
        /\ command' = CardReturned("delete_card", id, "", r)
    /\ UNCHANGED <<active_provider, pc, provider, result, pending_tool, events,
                   tool_log, received, session, ext_calls, api_keys,
                   provider_file, model_fs, downloads, window_file, window_cmds>>
    /\ UNCHANGED parser_vars
    /\ UNCHANGED sampler_vars
    /\ UNCHANGED concurrent_vars

\* init_cards over an empty cards directory.
InitCards ==
    /\ active_provider = None
    /\ pc = "idle"
    /\ provider = None
    /\ result = None
    /\ pending_tool = None
    /\ events = <<>>
    /\ tool_log = <<>>
    /\ store = [CARDS |-> <<>>, files |-> {}, uuids |-> 0]
    /\ received = <<>>
    /\ session = NoSession
    /\ ext_calls = <<>>
    /\ chunk_bytes = ""
    /\ payload_lists = <<>>
    /\ sample_in = [candidates |-> <<>>, all_tokens |-> <<>>]
    /\ sample_out = <<>>
    /\ invocations = NoInvocations
    /\ deliveries = <<>>
    /\ InitDesktop

SpecCards ==
    InitCards
        /\ [][\/ \E content \in CardContents, fault \in CreateFaults :
                      CreateCard(content, fault)
              \/ \E id \in CardIds, content \in CardContents, fault \in UpdateFaults :
                      UpdateCard(id, content, fault)
              \/ \E id \in CardIds, fault \in DeleteFaults : DeleteCard(id, fault)]_vars

CardCommands == {"create_card", "update_card", "delete_card"}

ListIds(s) == {s.CARDS[i].id : i \in 1..Len(s.CARDS)}

FileIds(s) == {f.id : f \in s.files}

\* C37: a card command that returns an error leaves the in-memory card list
\* as it was before the call, and after every sequence of card commands the
\* ids of the in-memory list and the ids of the card files are the same set.
C37_FailureKeepsListAndFiles ==
    /\ (command.name \in CardCommands /\ ~command.ok)
            => command.list_kept
    /\ ListIds(store) = FileIds(store)

\* C38: an update_card that returns Ok, with a content whose title is the
\* title the card's file is named after, leaves the card under the file name
\* it had.
C38_SameTitleKeepsName ==
    (command.name = "update_card" /\ command.ok /\ command.title_kept)
        => command.path_kept

(***************************************************************************)
(* keyring_store.rs: the provider identifiers; commands.rs: the            *)
(* set_active_provider command.                                             *)
(***************************************************************************)
UpperCase == "ABCDEFGHIJKLMNOPQRSTUVWXYZ"
LowerCase == "abcdefghijklmnopqrstuvwxyz"

\* str::to_lowercase, over the ASCII letters.
RECURSIVE to_lowercase(_)
to_lowercase(s) ==
    IF s = "" THEN ""
    ELSE LET c == SubSeq(s, 1, 1)
             at == {i \in 1..Len(UpperCase) : SubSeq(UpperCase, i, i) = c}
             l == IF at = {} THEN c
                  ELSE LET i == CHOOSE i \in at : TRUE IN SubSeq(LowerCase, i, i)
         IN  l \o to_lowercase(SubSeq(s, 2, Len(s)))

ProviderOk(p) == [ok |-> TRUE, value |-> p, error |-> ""]
ProviderErr(error, s) == [ok |-> FALSE, value |-> s, error |-> error]

\* AiProvider::from_str, were it to trim the string before matching it.
\* The match of AiProvider::from_str on the lowercased string.
match_provider(l, s) ==
    CASE l = "openai" -> ProviderOk(OpenAI)
      [] l = "anthropic" -> ProviderOk(Anthropic)
      [] l = "google" -> ProviderOk(Google)
      [] l = "poro2_8b" -> ProviderOk(Poro2_8B)
      [] l = "finchat_summary" -> ProviderOk(FinChatSummary)
      [] OTHER -> ProviderErr("InvalidProvider", s)

\* AiProvider::from_str, were it to trim the string before matching it.
AiProvider_from_str_trimmed(s) == match_provider(trim(to_lowercase(s)), s)

AiProvider_from_str(s) == match_provider(to_lowercase(s), s)

\* KeyringStore::has_api_key, were it to answer true for every provider.
has_api_key_always(p, keys) == TRUE

\* KeyringStore::has_api_key: get_api_key is Ok when the secret store has an
\* entry for the provider.
has_api_key(p, keys) ==
    IF ~requires_api_key(p) THEN TRUE ELSE p \in keys

\* The strings the command is called with: the five identifiers, the same
\* in other cases, and strings that are no identifier.
ProviderStrings ==
    {as_str(p) : p \in all}
        \cup {"OpenAI", "ANTHROPIC", "Google", "Poro2_8B", "FinChat_Summary"}
        \cup {"", "openai ", " google", "gpt", "poro2-8b", "finchat", "Poro 2 8B Instruct"}

\* commands::set_active_provider, with AiManager::set_active_provider and
\* save_active_provider: a failure to write the file is logged only.
SetActiveProviderCommand(s, save_ok) ==
    /\ \E parsed \in {AiProvider_from_str(s)} :
       LET rejected == ~parsed.ok \/ ~has_api_key(parsed.value, api_keys)
           returned == IF ~parsed.ok THEN parsed.error
                       ELSE IF rejected THEN "No API key configured"
                       ELSE "Ok"
       IN  /\ active_provider' = IF rejected THEN active_provider
                                 ELSE Some(parsed.value)
           /\ provider_file' = IF rejected \/ ~save_ok THEN provider_file
                               ELSE Some(as_str(parsed.value))
           /\ command' = [name |-> "set_active_provider", input |-> s,
                          parsed |-> parsed, returned |-> returned,
                          before |-> [active_provider |-> active_provider,
                                      provider_file |-> provider_file]]
    /\ UNCHANGED <<pc, provider, result, pending_tool, events, tool_log, store,
                   received, session, ext_calls, api_keys, model_fs, downloads,
                   window_file, window_cmds>>
    /\ UNCHANGED parser_vars
    /\ UNCHANGED sampler_vars
    /\ UNCHANGED concurrent_vars

\* AiManager::new loads the saved provider, which is one that has a key or
\* is local; the secret store holds the keys of any of the cloud providers.
InitProvider ==
    /\ api_keys \in SUBSET {p \in all : requires_api_key(p)}
    /\ active_provider \in {None} \cup {Some(p) : p \in {q \in all : has_api_key(q, api_keys)}}
    /\ provider_file = IF is_some(active_provider)
                       THEN Some(as_str(unwrap(active_provider))) ELSE None
    /\ pc = "idle"
    /\ provider = None
    /\ result = None
    /\ pending_tool = None
    /\ events = <<>>
    /\ tool_log = <<>>
    /\ store = InitStore
    /\ received = <<>>
    /\ session = NoSession
    /\ ext_calls = <<>>
    /\ chunk_bytes = ""
    /\ payload_lists = <<>>
    /\ sample_in = [candidates |-> <<>>, all_tokens |-> <<>>]
    /\ sample_out = <<>>
    /\ invocations = NoInvocations
    /\ deliveries = <<>>
    /\ command = NoCommand
    /\ model_fs = NoModelFs
    /\ downloads = [d \in DownloadIds |-> NoDownload]
    /\ window_file = None
    /\ window_cmds = [c \in MoveIds |-> NoMove]

SpecProvider ==
    InitProvider
        /\ [][\E s \in ProviderStrings, save_ok \in BOOLEAN :
                    SetActiveProviderCommand(s, save_ok)]_vars

\* Two characters are the same letter in either case, or the same character.
SameLetter(a, b) ==
    \/ a = b
    \/ \E i \in 1..Len(UpperCase) :
            {a, b} = {SubSeq(UpperCase, i, i), SubSeq(LowerCase, i, i)}

EqualIgnoringCase(s, t) ==
    /\ Len(s) = Len(t)
    /\ \A i \in 1..Len(s) : SameLetter(SubSeq(s, i, i), SubSeq(t, i, i))

\* C31: from_str of a provider's identifier is that provider, no two
\* providers share an identifier, and a string that is none of the five
\* identifiers in any case is rejected with InvalidProvider.
C31_IdentifierRoundTrip ==
    /\ \A p \in all : AiProvider_from_str(as_str(p)) = ProviderOk(p)
    /\ \A p, q \in all : as_str(p) = as_str(q) => p = q
    /\ command.name = "set_active_provider"
        => \/ \E p \in all : EqualIgnoringCase(command.input, as_str(p))
           \/ /\ ~command.parsed.ok
              /\ command.parsed.error = "InvalidProvider"
              /\ command.returned = "InvalidProvider"

\* The command was handed an identifier with a trailing space, and rejected it.
C31_Witness ==
    /\ command.name = "set_active_provider"
    /\ command.input = "openai "
    /\ ~command.parsed.ok

\* The call is one the command accepts: the string parses, and the provider
\* has a stored key or is local.
Accepted(c) ==
    /\ c.parsed.ok
    /\ (c.parsed.value \in api_keys \/ c.parsed.value \in {Poro2_8B, FinChatSummary})

TotalChunks == 2

\* Path::exists on the model's final path.
is_model_downloaded(fs) == fs.model # 0

DownloadEvent(name, downloaded) == [event |-> name, bytes_downloaded |-> downloaded]

\* The existence check, and the request: a model that is there is reported
\* complete at once; a request that fails ends the call.
BeginDownload(d, http_ok) ==
    /\ downloads[d].at = "idle"
    /\ IF is_model_downloaded(model_fs)
       THEN /\ downloads' = [downloads EXCEPT ![d].at = "ok"]
            /\ events' = Append(events,
                    DownloadEvent("local-model-download-complete", 0))
       ELSE /\ downloads' = [downloads EXCEPT
                    ![d].at = IF http_ok THEN "requested" ELSE "err"]
            /\ UNCHANGED events
    /\ UNCHANGED <<active_provider, pc, provider, result, pending_tool,
                   tool_log, store, received, session, ext_calls, api_keys,
                   provider_file, command, model_fs, window_file, window_cmds>>
    /\ UNCHANGED parser_vars
    /\ UNCHANGED sampler_vars
    /\ UNCHANGED concurrent_vars

\* File::create on the temporary path: a new empty file, or the file that
\* is there emptied.
CreateTemp(d, fs_ok) ==
    /\ downloads[d].at = "requested"
    /\ IF ~fs_ok
       THEN /\ downloads' = [downloads EXCEPT ![d].at = "err"]
            /\ UNCHANGED model_fs
       ELSE LET file == IF model_fs.tmp = 0 THEN Len(model_fs.files) + 1
                        ELSE model_fs.tmp
            IN  /\ model_fs' = [model_fs EXCEPT
                        !.tmp = file,
                        !.files = IF model_fs.tmp = 0 THEN Append(@, {})
                                  ELSE [@ EXCEPT ![file] = {}]]
                /\ downloads' = [downloads EXCEPT
                        ![d] = [at |-> "writing", file |-> file, downloaded |-> 0]]
    /\ UNCHANGED <<active_provider, pc, provider, result, pending_tool, events,
                   tool_log, store, received, session, ext_calls, api_keys,
                   provider_file, command, window_file, window_cmds>>
    /\ UNCHANGED parser_vars
    /\ UNCHANGED sampler_vars
    /\ UNCHANGED concurrent_vars

\* One turn of the loop: the next chunk is written at the handle's offset
\* and a progress event is emitted; a chunk that fails ends the call and
\* leaves the temporary file.
WriteChunk(d, chunk_ok) ==
    /\ downloads[d].at = "writing"
    /\ downloads[d].downloaded < TotalChunks
    /\ IF ~chunk_ok
       THEN /\ downloads' = [downloads EXCEPT ![d].at = "err"]
            /\ UNCHANGED <<model_fs, events>>
       ELSE LET chunk == downloads[d].downloaded + 1 IN
            /\ model_fs' = [model_fs EXCEPT
                    !.files[downloads[d].file] = @ \cup {chunk}]
            /\ downloads' = [downloads EXCEPT ![d].downloaded = chunk]
            /\ events' = Append(events,
                    DownloadEvent("local-model-download-progress", chunk))
    /\ UNCHANGED <<active_provider, pc, provider, result, pending_tool,
                   tool_log, store, received, session, ext_calls, api_keys,
                   provider_file, command, window_file, window_cmds>>
    /\ UNCHANGED parser_vars
    /\ UNCHANGED sampler_vars
    /\ UNCHANGED concurrent_vars

\* The stream has ended: flush, and rename of the temporary path to the
\* final path, which fails when nothing is at the temporary path.
FinishDownload(d) ==
    /\ downloads[d].at = "writing"
    /\ downloads[d].downloaded = TotalChunks
    /\ IF model_fs.tmp = 0
       THEN /\ downloads' = [downloads EXCEPT ![d].at = "err"]
            /\ UNCHANGED <<model_fs, events>>
       ELSE /\ model_fs' = [model_fs EXCEPT !.model = model_fs.tmp, !.tmp = 0]
            /\ downloads' = [downloads EXCEPT ![d].at = "ok"]
            /\ events' = Append(events,
                    DownloadEvent("local-model-download-complete", TotalChunks))
    /\ UNCHANGED <<active_provider, pc, provider, result, pending_tool,
                   tool_log, store, received, session, ext_calls, api_keys,
                   provider_file, command, window_file, window_cmds>>
    /\ UNCHANGED parser_vars
    /\ UNCHANGED sampler_vars
    /\ UNCHANGED concurrent_vars

SpecDownload ==
    InitCards
        /\ [][\E d \in DownloadIds :
                  \/ \E http_ok \in BOOLEAN : BeginDownload(d, http_ok)
                  \/ \E fs_ok \in BOOLEAN : CreateTemp(d, fs_ok)
                  \/ \E chunk_ok \in BOOLEAN : WriteChunk(d, chunk_ok)
                  \/ FinishDownload(d)]_vars

\* C39: whenever a file is at the model's final path, every chunk of the
\* download has been written into it.
C39_FinalPathHoldsWholeFile ==
    is_model_downloaded(model_fs)
        => model_fs.files[model_fs.model] = 1..TotalChunks

(***************************************************************************)
(* window_state.rs and the two window position commands of commands.rs.    *)
(* A command loads the state file, sets one field of what it loaded and    *)
(* writes the file back; commands run on the threads of the async runtime, *)
(* so another command may run between the load and the write.              *)
(***************************************************************************)
WindowPosition(x, y) == [x |-> x, y |-> y]

\* The positions the commands are called with.
Positions == {WindowPosition(1, 1), WindowPosition(2, 2)}

\* WindowState::load: the default state when there is no file; an error when
\* the file cannot be read or parsed.
WindowState_load(file, read_ok) ==
    IF file = None THEN Some(WindowState_default)
    ELSE IF read_ok THEN file
    ELSE None

\* Option::unwrap_or_default.
unwrap_or_default(o) == IF is_some(o) THEN unwrap(o) ELSE WindowState_default

\* set_main_position and set_orb_position.
set_position(state, kind, pos) ==
    IF kind = "main" THEN [state EXCEPT !.main_window = Some(pos)]
    ELSE [state EXCEPT !.orb_window = Some(pos)]

\* The first half of save_main_window_position (kind "main") and of
\* save_orb_window_position (kind "orb"): load, and set the position.
LoadState(c, kind, pos, read_ok) ==
    /\ window_cmds[c].at # "loaded"
    /\ window_cmds' = [window_cmds EXCEPT ![c] =
            [at |-> "loaded", kind |-> kind, pos |-> pos,
             loaded |-> is_some(WindowState_load(window_file, read_ok)),
             state |-> set_position(
                 unwrap_or_default(WindowState_load(window_file, read_ok)),
                 kind, pos)]]
    /\ UNCHANGED <<active_provider, pc, provider, result, pending_tool, events,
                   tool_log, store, received, session, ext_calls, api_keys,
                   provider_file, command, model_fs, downloads, window_file>>
    /\ UNCHANGED parser_vars
    /\ UNCHANGED sampler_vars
    /\ UNCHANGED concurrent_vars

\* The second half: WindowState::save, and the return.
SaveState(c, write_ok) ==
    /\ window_cmds[c].at = "loaded"
    /\ window_file' = IF write_ok THEN Some(window_cmds[c].state) ELSE window_file
    /\ window_cmds' = [window_cmds EXCEPT ![c].at = IF write_ok THEN "ok" ELSE "err"]
    /\ UNCHANGED <<active_provider, pc, provider, result, pending_tool, events,
                   tool_log, store, received, session, ext_calls, api_keys,
                   provider_file, command, model_fs, downloads>>
    /\ UNCHANGED parser_vars
    /\ UNCHANGED sampler_vars
    /\ UNCHANGED concurrent_vars

SpecWindow ==
    InitCards
        /\ [][\E c \in MoveIds :
                  \/ \E kind \in {"main", "orb"}, pos \in Positions, read_ok \in BOOLEAN :
                          LoadState(c, kind, pos, read_ok)
                  \/ \E write_ok \in BOOLEAN : SaveState(c, write_ok)]_vars

\* What the state file holds, as load would read it.
Stored(file) == unwrap_or_default(file)

\* C40: the write of a command that loaded the state file and saves the
\* main window position leaves the stored orb position as it is, and the
\* write of a command that loaded the state file and saves the orb position
\* leaves the stored main position as it is.
C40_OtherPositionKept ==
    [][\A c \in MoveIds :
            (/\ window_cmds[c].at = "loaded"
             /\ window_cmds[c].loaded
             /\ window_cmds'[c].at # "loaded")
                => IF window_cmds[c].kind = "main"
                   THEN Stored(window_file').orb_window = Stored(window_file).orb_window
                   ELSE Stored(window_file').main_window = Stored(window_file).main_window]_vars

====
